---- MODULE Spec2Model ----
(***************************************************************************)
(* Model of zpaeng/db-gen-mcp: the connection pool manager                 *)
(* (src/src/database/pool.ts) and the dialect-aware query builder          *)
(* (src/src/query/builder.ts).                                             *)
(*                                                                         *)
(* The pool runs on the JavaScript event loop: code between two awaits     *)
(* is atomic, and every await of adapter I/O or of a timer is a point where *)
(* other calls interleave.  Each action below is one such atomic segment.  *)
(***************************************************************************)
EXTENDS Integers, Sequences, FiniteSets, TLC

(***************************************************************************)
(* Bounds of the model.  The time constants of pool.ts are scaled to a     *)
(* clock whose unit is one poll interval, keeping their order              *)
(* (poll interval < wait timeout < maximum idle time).                     *)
(***************************************************************************)
\* pool.ts:16 sets MAX_POOL_SIZE = 10; scaled so that a full pool is reachable
MAX_POOL_SIZE == 2
\* pool.ts:198 timeout = 30000 ms, i.e. 300 poll intervals of 100 ms; scaled
WAIT_TIMEOUT == 2
\* pool.ts:17 MAX_IDLE_TIME = 30 min; scaled
MAX_IDLE_TIME == 2
\* pool.ts:283 maxWaitTime = 30000 ms, i.e. 30 sleeps of 1000 ms; scaled
SHUTDOWN_WAIT == 2
\* number of concurrently running getConnection calls
NumCallers == 2
\* total number of getConnection calls started in a behaviour
MaxCalls == 3
\* the clock stops here
MaxTime == 3

\* pool.ts:215 the waiter sleeps one poll interval (100 ms): the clock unit
POLL_INTERVAL == 1
\* pool.ts:293 the shutdown loop sleeps 1000 ms; scaled to one clock unit
SHUTDOWN_POLL == 1

Callers == 1 .. NumCallers
AdapterIds == 1 .. MaxCalls
ArrIds == 1 .. MaxCalls

Dialects == {"mysql", "postgresql", "mssql", "oracle", "sqlite"}

\* DatabaseConfig values handed to the pool (types/index.ts DatabaseConfig)
Configs ==
  { [type |-> "mysql", username |-> "root", host |-> "db", port |-> 3306,
     database |-> "app"] }

VARIABLES
  pools,        \* ConnectionPoolManager.pools: the Map, as a sequence of
                \* [key, arr] in insertion order; arr identifies the array
  arrays,       \* the PooledConnection[] arrays, by identity
  conns,        \* the PooledConnection objects, by the adapter they wrap
  adapters,     \* the adapters: connection state and disconnect() calls
  held,         \* hand-outs of each adapter not yet released by a caller
  calls,        \* the running getConnection calls
  sweep,        \* the running cleanupIdleConnections call
  shut,         \* the running gracefulShutdown / cleanup call
  cleanupTimer, \* ConnectionPoolManager.cleanupTimer is set
  now,          \* Date.now()
  nCalls,       \* getConnection calls started so far
  nextAdapter,  \* identity of the next adapter object
  nextArr,      \* identity of the next array object
  qb,           \* the fields of a QueryBuilder instance
  res,          \* what the last call of build() returned or threw
  nOps,         \* calls made on the builder so far
  esc,          \* an identifier and what escapeIdentifier made of it
  st,           \* a call of a static helper and what it returned or threw
  val,          \* what validateQuery() and a further build() returned
  ex            \* a QueryExecutor and the call it is running

poolVars == <<pools, arrays, conns, adapters, held, calls, sweep, shut,
              cleanupTimer, now, nCalls, nextAdapter, nextArr>>

qbVars == <<qb, res, nOps, esc, st, val, ex>>

vars == <<poolVars, qbVars>>

----------------------------------------------------------------------------
(* JavaScript array and Map primitives *)

\* Array.prototype.indexOf: the 0-based index of x, or -1
IndexOf(s, x) ==
  IF \E i \in 1 .. Len(s) : s[i] = x
  THEN (CHOOSE i \in 1 .. Len(s) : s[i] = x /\ \A j \in 1 .. i - 1 : s[j] # x) - 1
  ELSE -1

\* Array.prototype.splice(index, 1): a negative index counts from the end
SpliceOne(s, index) ==
  LET start == IF index < 0
               THEN (IF Len(s) + index < 0 THEN 0 ELSE Len(s) + index)
               ELSE index
  IN  IF start >= Len(s) THEN s
      ELSE [i \in 1 .. Len(s) - 1 |-> IF i <= start THEN s[i] ELSE s[i + 1]]

\* Map.prototype.get: the array registered under key, 0 for undefined
PoolsGet(reg, key) ==
  IF \E i \in 1 .. Len(reg) : reg[i].key = key
  THEN reg[CHOOSE i \in 1 .. Len(reg) : reg[i].key = key].arr
  ELSE 0

\* Map.prototype.set of a key that is absent: appended in insertion order
PoolsSet(reg, key, arr) == Append(reg, [key |-> key, arr |-> arr])

\* Map.prototype.delete
PoolsDelete(reg, key) == SelectSeq(reg, LAMBDA r : r.key # key)

\* pool.find(conn => !conn.inUse): the first idle entry, 0 for undefined
FindIdle(s, cs) ==
  IF \E i \in 1 .. Len(s) : ~cs[s[i]].inUse
  THEN s[CHOOSE i \in 1 .. Len(s) :
           ~cs[s[i]].inUse /\ \A j \in 1 .. i - 1 : cs[s[j]].inUse]
  ELSE 0

\* pool.find(conn => conn.adapter === adapter)
\* a find that takes the first entry, whatever adapter it wraps
FindAdapterFirst(s, a) == IF s # <<>> THEN s[1] ELSE 0

FindAdapter(s, a) == IF \E i \in 1 .. Len(s) : s[i] = a THEN a ELSE 0

getConfigKey(config) ==
  config.type \o "://" \o config.username \o "@" \o config.host \o ":"
    \o ToString(config.port) \o "/" \o config.database

----------------------------------------------------------------------------
(* Initial state: the class has been loaded *)

NoConn == [lastUsed |-> 0, inUse |-> FALSE, connectionCount |-> 0]

NoCall == [pc |-> "idle", cfg |-> CHOOSE c \in Configs : TRUE, pool |-> 0,
           avail |-> 0, adapter |-> 0, start |-> 0, wake |-> 0,
           result |-> "none", ret |-> 0]

\* the position of a loop over the Map and over the array of one key: the
\* array visited last, the array and key being visited, the index in it, and
\* connectionsToRemove
NoIter == [last |-> 0, cur |-> 0, key |-> "", idx |-> 0, rem |-> <<>>]

NoSweep == [pc |-> "idle", now |-> 0, it |-> NoIter, target |-> 0]

NoShut == [pc |-> "idle", start |-> 0, wake |-> 0, it |-> NoIter, target |-> 0]

PoolInit ==
  /\ pools = <<>>
  /\ arrays = [a \in ArrIds |-> <<>>]
  /\ conns = [a \in AdapterIds |-> NoConn]
  /\ adapters = [a \in AdapterIds |-> [state |-> "new", disconnectCalled |-> FALSE]]
  /\ held = [a \in AdapterIds |-> 0]
  /\ calls = [c \in Callers |-> NoCall]
  /\ sweep = NoSweep
  /\ shut = NoShut
  /\ cleanupTimer = TRUE
  /\ now = 0
  /\ nCalls = 0
  /\ nextAdapter = 1
  /\ nextArr = 1

----------------------------------------------------------------------------
(* getConnection *)

\* the call returns adapter a to its caller
Returned(call, a) ==
  [call EXCEPT !.pc = "idle", !.pool = 0, !.avail = 0, !.adapter = 0,
               !.start = 0, !.wake = 0, !.result = "adapter", !.ret = a]

\* the call rejects with the error it caught, as it is
RejectedUntyped(call, code) ==
  [call EXCEPT !.pc = "idle", !.pool = 0, !.avail = 0, !.adapter = 0,
               !.start = 0, !.wake = 0, !.result = "Error", !.ret = 0]

\* the call rejects with an error of the given code
Rejected(call, code) ==
  [call EXCEPT !.pc = "idle", !.pool = 0, !.avail = 0, !.adapter = 0,
               !.start = 0, !.wake = 0, !.result = code, !.ret = 0]

\* a hand-out that is not counted
MarkInUseUncounted(conn) ==
  [conn EXCEPT !.inUse = TRUE, !.lastUsed = now]

\* a hand-out that leaves the entry idle
MarkInUseNotInUse(conn) ==
  [conn EXCEPT !.lastUsed = now,
               !.connectionCount = conn.connectionCount + 1]

\* pool.ts:46-48 and 207-209: the entry is handed out again
MarkInUse(conn) ==
  [conn EXCEPT !.inUse = TRUE, !.lastUsed = now,
               !.connectionCount = conn.connectionCount + 1]

\* One iteration of the loop of waitForAvailableConnection, entered at a
\* moment when the registry is reg and the adapters are ads.
WaitPoll(c, call, reg, ads) ==
  LET pool == PoolsGet(reg, getConfigKey(call.cfg))
      availableConnection == IF pool = 0 THEN 0 ELSE FindIdle(arrays[pool], conns)
  IN  /\ adapters' = ads
      /\ UNCHANGED nextAdapter
      /\ IF now - call.start < WAIT_TIMEOUT
         THEN IF availableConnection # 0
              THEN /\ conns' = [conns EXCEPT ![availableConnection] = MarkInUse(@)]
                   /\ held' = [held EXCEPT ![availableConnection] = @ + 1]
                   /\ calls' = [calls EXCEPT ![c] = Returned(call, availableConnection)]
              ELSE /\ calls' = [calls EXCEPT ![c] =
                        [call EXCEPT !.pc = "sleep", !.avail = 0, !.adapter = 0,
                                     !.wake = now + POLL_INTERVAL]]
                   /\ UNCHANGED <<conns, held>>
         ELSE /\ calls' = [calls EXCEPT ![c] = Rejected(call, "POOL_TIMEOUT")]
              /\ UNCHANGED <<conns, held>>

\* pool.ts:58-93: create a connection if the pool is not full, wait otherwise
CreateOrWait(c, call, reg, ads) ==
  IF Len(arrays[call.pool]) < MAX_POOL_SIZE
  THEN IF call.cfg.type \notin Dialects
       THEN \* DatabaseManager.getAdapter throws; caught at pool.ts:79
            /\ calls' = [calls EXCEPT ![c] = Rejected(call, "POOL_CONNECTION_FAILED")]
            /\ adapters' = ads
            /\ UNCHANGED <<conns, held, nextAdapter>>
       ELSE \* adapter.connect() is called and awaited
            /\ calls' = [calls EXCEPT ![c] =
                 [call EXCEPT !.pc = "connect", !.adapter = nextAdapter]]
            /\ adapters' = ads
            /\ nextAdapter' = nextAdapter + 1
            /\ UNCHANGED <<conns, held>>
  ELSE WaitPoll(c, [call EXCEPT !.start = now], reg, ads)

\* pool.ts:30-44: the call starts; it suspends at healthCheck() of the first
\* idle entry, or goes on to create or wait
GetConnectionFrom(c, config) ==
  /\ calls[c].pc = "idle"
  /\ nCalls < MaxCalls
  /\ nCalls' = nCalls + 1
  /\ LET key == getConfigKey(config)
         found == PoolsGet(pools, key)
         pool == IF found = 0 THEN nextArr ELSE found
         reg == IF found = 0 THEN PoolsSet(pools, key, pool) ELSE pools
         availableConnection == FindIdle(arrays[pool], conns)
         call == [NoCall EXCEPT !.cfg = config, !.pool = pool]
     IN  /\ pools' = reg
         /\ nextArr' = IF found = 0 THEN nextArr + 1 ELSE nextArr
         /\ IF availableConnection # 0
            THEN /\ calls' = [calls EXCEPT ![c] =
                      [call EXCEPT !.pc = "healthCheck", !.avail = availableConnection]]
                 /\ UNCHANGED <<conns, held, adapters, nextAdapter>>
            ELSE CreateOrWait(c, call, reg, adapters)
  /\ UNCHANGED <<arrays, sweep, shut, cleanupTimer, now>>

\* getConnection called by a caller that holds no builder and no executor
GetConnection(c, config) ==
  /\ GetConnectionFrom(c, config)
  /\ UNCHANGED qbVars

\* pool.ts:44-54: healthCheck() has answered
HealthCheckDone(c, healthy) ==
  /\ calls[c].pc = "healthCheck"
  /\ LET call == calls[c]
         availableConnection == call.avail
     IN  IF healthy
         THEN /\ conns' = [conns EXCEPT ![availableConnection] = MarkInUse(@)]
              /\ held' = [held EXCEPT ![availableConnection] = @ + 1]
              /\ calls' = [calls EXCEPT ![c] = Returned(call, availableConnection)]
              /\ UNCHANGED <<arrays, adapters>>
         ELSE LET index == IndexOf(arrays[call.pool], availableConnection)
              IN  /\ arrays' = [arrays EXCEPT ![call.pool] = SpliceOne(@, index)]
                  /\ adapters' = [adapters EXCEPT ![availableConnection].disconnectCalled = TRUE]
                  /\ calls' = [calls EXCEPT ![c] = [call EXCEPT !.pc = "disconnect"]]
                  /\ UNCHANGED <<conns, held>>
  /\ UNCHANGED <<qbVars, pools, sweep, shut, cleanupTimer, now, nCalls, nextAdapter, nextArr>>

\* the adapters once disconnect() of adapter a has settled with the outcome
Disconnected(ads, a, outcome) ==
  IF outcome = "ok" THEN [ads EXCEPT ![a].state = "disconnected"] ELSE ads

DisconnectOutcomes == {"ok", "failed", "throw"}

\* pool.ts:54-93: disconnect() of the invalid connection has settled
DisconnectDone(c, outcome) ==
  /\ calls[c].pc = "disconnect"
  /\ LET call == calls[c]
     IN  IF outcome = "throw"
         THEN \* nothing in getConnection catches the rejection of disconnect()
              /\ calls' = [calls EXCEPT ![c] = Rejected(call, "DISCONNECT_ERROR")]
              /\ UNCHANGED <<conns, held, adapters, nextAdapter>>
         ELSE CreateOrWait(c, call, pools, Disconnected(adapters, call.avail, outcome))
  /\ UNCHANGED <<qbVars, pools, arrays, sweep, shut, cleanupTimer, now, nCalls, nextArr>>

\* pool.ts:62-89: connect() has settled
ConnectDone(c, success) ==
  /\ calls[c].pc = "connect"
  /\ LET call == calls[c]
         adapter == call.adapter
     IN  IF success
         THEN /\ adapters' = [adapters EXCEPT ![adapter].state = "connected"]
              /\ conns' = [conns EXCEPT ![adapter] =
                   [lastUsed |-> now, inUse |-> TRUE, connectionCount |-> 1]]
              /\ arrays' = [arrays EXCEPT ![call.pool] = Append(@, adapter)]
              /\ held' = [held EXCEPT ![adapter] = @ + 1]
              /\ calls' = [calls EXCEPT ![c] = Returned(call, adapter)]
         ELSE /\ calls' = [calls EXCEPT ![c] = Rejected(call, "POOL_CONNECTION_FAILED")]
              /\ UNCHANGED <<conns, arrays, held, adapters>>
  /\ UNCHANGED <<qbVars, pools, sweep, shut, cleanupTimer, now, nCalls, nextAdapter, nextArr>>

\* pool.ts:202-216: the 100 ms timer of the waiter has fired
WaitWake(c) ==
  /\ calls[c].pc = "sleep"
  /\ now >= calls[c].wake
  /\ WaitPoll(c, calls[c], pools, adapters)
  /\ UNCHANGED <<qbVars, pools, arrays, sweep, shut, cleanupTimer, now, nCalls, nextArr>>

\* pool.ts:96-108: releaseConnection(config, adapter), called by a caller
\* that was handed the adapter
ReleaseConnection(config, adapter) ==
  /\ held[adapter] > 0
  /\ held' = [held EXCEPT ![adapter] = @ - 1]
  /\ LET pool == PoolsGet(pools, getConfigKey(config))
         connection == IF pool = 0 THEN 0 ELSE FindAdapter(arrays[pool], adapter)
     IN  IF connection # 0
         THEN conns' = [conns EXCEPT ![connection].inUse = FALSE,
                                     ![connection].lastUsed = now]
         ELSE UNCHANGED conns
  /\ UNCHANGED <<qbVars, pools, arrays, adapters, calls, sweep, shut, cleanupTimer, now,
                 nCalls, nextAdapter, nextArr>>

\* time passes
Tick ==
  /\ now < MaxTime
  /\ now' = now + 1
  /\ UNCHANGED <<qbVars, pools, arrays, conns, adapters, held, calls, sweep, shut,
                 cleanupTimer, nCalls, nextAdapter, nextArr>>

----------------------------------------------------------------------------
(* getPoolStatistics *)

RECURSIVE SumSeq(_)
SumSeq(s) == IF s = <<>> THEN 0 ELSE Head(s) + SumSeq(Tail(s))

\* an element of poolDetails that counts every entry as idle
PoolDetailAllIdle(r) ==
  LET pool == arrays[r.arr]
      active == Cardinality({i \in 1 .. Len(pool) : conns[pool[i]].inUse})
  IN  [key |-> r.key, totalConnections |-> Len(pool),
       activeConnections |-> active, idleConnections |-> Len(pool)]

\* pool.ts:170-183: one element of poolDetails
PoolDetail(r) ==
  LET pool == arrays[r.arr]
      active == Cardinality({i \in 1 .. Len(pool) : conns[pool[i]].inUse})
      idle == Cardinality({i \in 1 .. Len(pool) : ~conns[pool[i]].inUse})
  IN  [key |-> r.key, totalConnections |-> Len(pool),
       activeConnections |-> active, idleConnections |-> idle]

\* pool.ts:148-193
getPoolStatistics ==
  LET poolDetails == [i \in 1 .. Len(pools) |-> PoolDetail(pools[i])]
  IN  [totalPools |-> Len(pools),
       totalConnections
       |-> SumSeq([i \in 1 .. Len(pools) |-> poolDetails[i].totalConnections]),
       activeConnections
       |-> SumSeq([i \in 1 .. Len(pools) |-> poolDetails[i].activeConnections]),
       idleConnections
       |-> SumSeq([i \in 1 .. Len(pools) |-> poolDetails[i].idleConnections]),
       poolDetails |-> poolDetails]

----------------------------------------------------------------------------
(* The loops of cleanupIdleConnections (pool.ts:240-269) and of cleanup      *)
(* (pool.ts:113-138).  Both walk the Map and, inside, the array of each key, *)
(* and suspend at disconnect() of every entry they select.                   *)

\* pool.ts:244-246 (mode "idle") and pool.ts:117 (mode "all")
Selected(a, mode, start) ==
  /\ ~conns[a].inUse
  /\ mode = "idle" => start - conns[a].lastUsed > MAX_IDLE_TIME

\* pool.ts:259-264 and 128-133: connectionsToRemove.forEach(...)
RECURSIVE RemoveEach(_, _)
RemoveEach(pool, rem) ==
  IF rem = <<>> THEN pool
  ELSE LET index == IndexOf(pool, Head(rem))
       IN  RemoveEach(IF index > -1 THEN SpliceOne(pool, index) ELSE pool, Tail(rem))

\* Runs the loops from the position it until the next disconnect() (target is
\* the adapter being disconnected) or to their end (target = 0).  The Map
\* iterator visits the entries in insertion order, those added meanwhile
\* included; the array iterator reads the live array by index.
RECURSIVE Walk(_, _, _, _, _)
Walk(it, reg, arrs, mode, start) ==
  IF it.cur = 0
  THEN LET rest == {i \in 1 .. Len(reg) : reg[i].arr > it.last}
       IN  IF rest = {}
           THEN [it |-> it, reg |-> reg, arrs |-> arrs, target |-> 0]
           ELSE LET i == CHOOSE j \in rest : \A k \in rest : j <= k
                IN  Walk([it EXCEPT !.cur = reg[i].arr, !.key = reg[i].key,
                                    !.idx = 1, !.rem = <<>>],
                         reg, arrs, mode, start)
  ELSE IF it.idx <= Len(arrs[it.cur])
       THEN LET a == arrs[it.cur][it.idx]
            IN  IF Selected(a, mode, start)
                THEN [it |-> it, reg |-> reg, arrs |-> arrs, target |-> a]
                ELSE Walk([it EXCEPT !.idx = @ + 1], reg, arrs, mode, start)
       ELSE LET pool == RemoveEach(arrs[it.cur], it.rem)
            IN  Walk([it EXCEPT !.last = it.cur, !.cur = 0, !.key = "",
                                !.idx = 0, !.rem = <<>>],
                     IF Len(pool) = 0 THEN PoolsDelete(reg, it.key) ELSE reg,
                     [arrs EXCEPT ![it.cur] = pool], mode, start)

\* the position after disconnect() of the current entry has settled
\* (pool.ts:248-253, 119-123): a rejection is caught and the entry is not
\* pushed on connectionsToRemove
AfterDisconnect(it, target, outcome) ==
  [it EXCEPT !.idx = @ + 1,
             !.rem = IF outcome = "throw" THEN @ ELSE Append(@, target)]

----------------------------------------------------------------------------
(* cleanupIdleConnections, run by the interval timer *)

\* pool.ts:237-248: the timer fires and the sweep runs to its first
\* disconnect(), or to its end
CleanupIdleConnections ==
  /\ cleanupTimer
  /\ sweep.pc = "idle"
  /\ LET w == Walk(NoIter, pools, arrays, "idle", now)
     IN  /\ pools' = w.reg
         /\ arrays' = w.arrs
         /\ IF w.target = 0
            THEN UNCHANGED <<sweep, adapters>>
            ELSE /\ sweep' = [pc |-> "disconnect", now |-> now, it |-> w.it,
                              target |-> w.target]
                 /\ adapters' = [adapters EXCEPT ![w.target].disconnectCalled = TRUE]
  /\ UNCHANGED <<qbVars, conns, held, calls, shut, cleanupTimer, now, nCalls,
                 nextAdapter, nextArr>>

\* pool.ts:248-269: disconnect() has settled and the sweep runs on
SweepDisconnectDone(outcome) ==
  /\ sweep.pc = "disconnect"
  /\ LET ads == Disconnected(adapters, sweep.target, outcome)
         w == Walk(AfterDisconnect(sweep.it, sweep.target, outcome),
                   pools, arrays, "idle", sweep.now)
     IN  /\ pools' = w.reg
         /\ arrays' = w.arrs
         /\ IF w.target = 0
            THEN /\ sweep' = NoSweep
                 /\ adapters' = ads
            ELSE /\ sweep' = [sweep EXCEPT !.it = w.it, !.target = w.target]
                 /\ adapters' = [ads EXCEPT ![w.target].disconnectCalled = TRUE]
  /\ UNCHANGED <<qbVars, conns, held, calls, shut, cleanupTimer, now, nCalls,
                 nextAdapter, nextArr>>

----------------------------------------------------------------------------
(* gracefulShutdown and cleanup *)

\* pool.ts:110-146: cleanup() runs from the position it to its next
\* disconnect(), or to its end, where it clears the timer
Cleanup(it, ads) ==
  LET w == Walk(it, pools, arrays, "all", 0)
  IN  /\ pools' = w.reg
      /\ arrays' = w.arrs
      /\ cleanupTimer' = FALSE
      /\ IF w.target = 0
         THEN /\ shut' = [NoShut EXCEPT !.pc = "done"]
              /\ adapters' = ads
         ELSE /\ shut' = [NoShut EXCEPT !.pc = "disconnect", !.it = w.it,
                                        !.target = w.target]
              /\ adapters' = [ads EXCEPT ![w.target].disconnectCalled = TRUE]

\* a waiting loop without the bound of maxWaitTime
ShutdownLoopUnbounded(start) ==
  IF getPoolStatistics.activeConnections # 0
  THEN /\ shut' = [NoShut EXCEPT !.pc = "sleep", !.start = start,
                                 !.wake = now + SHUTDOWN_POLL]
       /\ cleanupTimer' = FALSE
       /\ UNCHANGED <<pools, arrays, adapters>>
  ELSE Cleanup(NoIter, adapters)

\* pool.ts:286-297: the condition and the body of the waiting loop, then
\* cleanup()
ShutdownLoop(start) ==
  IF now - start < SHUTDOWN_WAIT /\ getPoolStatistics.activeConnections # 0
  THEN /\ shut' = [NoShut EXCEPT !.pc = "sleep", !.start = start,
                                 !.wake = now + SHUTDOWN_POLL]
       /\ cleanupTimer' = FALSE
       /\ UNCHANGED <<pools, arrays, adapters>>
  ELSE Cleanup(NoIter, adapters)

\* pool.ts:273-297
GracefulShutdown ==
  /\ shut.pc = "idle"
  /\ ShutdownLoop(now)
  /\ UNCHANGED <<qbVars, conns, held, calls, sweep, now, nCalls, nextAdapter, nextArr>>

\* pool.ts:293: the 1000 ms timer has fired
ShutdownWake ==
  /\ shut.pc = "sleep"
  /\ now >= shut.wake
  /\ ShutdownLoop(shut.start)
  /\ UNCHANGED <<qbVars, conns, held, calls, sweep, now, nCalls, nextAdapter, nextArr>>

\* pool.ts:119-138: disconnect() has settled and cleanup() runs on
CleanupDisconnectDone(outcome) ==
  /\ shut.pc = "disconnect"
  /\ Cleanup(AfterDisconnect(shut.it, shut.target, outcome),
             Disconnected(adapters, shut.target, outcome))
  /\ UNCHANGED <<qbVars, conns, held, calls, sweep, now, nCalls, nextAdapter, nextArr>>

----------------------------------------------------------------------------
(* The steps of the pool *)

CallerNext ==
  \/ \E c \in Callers, config \in Configs : GetConnection(c, config)
  \/ \E c \in Callers, healthy \in BOOLEAN : HealthCheckDone(c, healthy)
  \/ \E c \in Callers, outcome \in DisconnectOutcomes : DisconnectDone(c, outcome)
  \/ \E c \in Callers, success \in BOOLEAN : ConnectDone(c, success)
  \/ \E c \in Callers : WaitWake(c)
  \/ \E config \in Configs, adapter \in AdapterIds : ReleaseConnection(config, adapter)
  \/ Tick

SweepNext ==
  \/ CleanupIdleConnections
  \/ \E outcome \in DisconnectOutcomes : SweepDisconnectDone(outcome)

ShutdownNext ==
  \/ GracefulShutdown
  \/ ShutdownWake
  \/ \E outcome \in DisconnectOutcomes : CleanupDisconnectDone(outcome)

----------------------------------------------------------------------------
(***************************************************************************)
(* The query builder (src/src/query/builder.ts).  A string is the sequence *)
(* of its characters; the rendered query is the sequence of its tokens     *)
(* (keywords, rendered identifiers, placeholders, numbers, verbatim text), *)
(* which the code joins with blanks, commas and parentheses.               *)
(***************************************************************************)

LowerLetters == <<"a", "b", "c", "d", "e", "f", "g", "h", "i", "j", "k", "l", "m",
                  "n", "o", "p", "q", "r", "s", "t", "u", "v", "w", "x", "y", "z">>
UpperLetters == <<"A", "B", "C", "D", "E", "F", "G", "H", "I", "J", "K", "L", "M",
                  "N", "O", "P", "Q", "R", "S", "T", "U", "V", "W", "X", "Y", "Z">>
Digits == {"0", "1", "2", "3", "4", "5", "6", "7", "8", "9"}

IsLower(ch) == \E i \in 1 .. 26 : LowerLetters[i] = ch
IsUpper(ch) == \E i \in 1 .. 26 : UpperLetters[i] = ch

\* String.prototype.toUpperCase / toLowerCase, one character
UpperChar(ch) ==
  IF IsLower(ch) THEN UpperLetters[CHOOSE i \in 1 .. 26 : LowerLetters[i] = ch] ELSE ch
LowerChar(ch) ==
  IF IsUpper(ch) THEN LowerLetters[CHOOSE i \in 1 .. 26 : UpperLetters[i] = ch] ELSE ch

toUpperCase(str) == [i \in 1 .. Len(str) |-> UpperChar(str[i])]
toLowerCase(str) == [i \in 1 .. Len(str) |-> LowerChar(str[i])]

\* the character class \w of a regular expression
IsWordChar(ch) == IsLower(ch) \/ IsUpper(ch) \/ ch \in Digits \/ ch = "_"

\* String.prototype.includes
Includes(str, sub) ==
  \E i \in 1 .. Len(str) - Len(sub) + 1 : SubSeq(str, i, i + Len(sub) - 1) = sub

\* String.prototype.split('.')
RECURSIVE SplitDot(_)
SplitDot(str) ==
  IF \E i \in 1 .. Len(str) : str[i] = "."
  THEN LET i == CHOOSE j \in 1 .. Len(str) :
                  str[j] = "." /\ \A k \in 1 .. j - 1 : str[k] # "."
       IN  <<SubSeq(str, 1, i - 1)>> \o SplitDot(SubSeq(str, i + 1, Len(str)))
  ELSE <<str>>

\* Array.prototype.join with a one-token or one-character separator
RECURSIVE Join(_, _)
Join(parts, sep) ==
  IF parts = <<>> THEN <<>>
  ELSE IF Len(parts) = 1 THEN parts[1]
  ELSE parts[1] \o sep \o Join(Tail(parts), sep)

\* the grave accent (U+0060), which a TLA+ string cannot hold
Backtick == "U+0060"

\* a quoting that leaves the case of oracle names as it is
QuoteIdentifierCaseKept(dbType, cleaned) ==
  CASE dbType = "mssql" -> <<"[">> \o cleaned \o <<"]">>
    [] dbType \in {"postgresql", "oracle"} -> <<"\"">> \o cleaned \o <<"\"">>
    [] OTHER -> <<Backtick>> \o cleaned \o <<Backtick>>

\* builder.ts:280-293 and 405-418: the quoting of the dialect
QuoteIdentifier(dbType, cleaned) ==
  CASE dbType = "mysql" -> <<Backtick>> \o cleaned \o <<Backtick>>
    [] dbType = "postgresql" -> <<"\"">> \o cleaned \o <<"\"">>
    [] dbType = "mssql" -> <<"[">> \o cleaned \o <<"]">>
    [] dbType = "oracle" -> <<"\"">> \o toUpperCase(cleaned) \o <<"\"">>
    [] dbType = "sqlite" -> <<Backtick>> \o cleaned \o <<Backtick>>
    [] OTHER -> <<Backtick>> \o cleaned \o <<Backtick>>

\* the result of a call that may throw
Ok(text) == [ok |-> TRUE, text |-> text]
Thrown == [ok |-> FALSE, text |-> <<>>]

\* builder.ts:256-294
RECURSIVE escapeIdentifier(_, _)
escapeIdentifier(dbType, identifier) ==
  IF identifier = <<"*">> THEN Ok(identifier)
  ELSE IF Includes(identifier, <<"(">>)
            \/ Includes(toLowerCase(identifier), <<" ", "a", "s", " ">>)
       THEN Ok(identifier)
       ELSE LET cleaned == SelectSeq(identifier,
                             LAMBDA ch : IsWordChar(ch) \/ ch = "$" \/ ch = ".")
            IN  IF cleaned = <<>> THEN Thrown
                ELSE IF Includes(cleaned, <<".">>)
                     THEN LET parts == SplitDot(cleaned)
                              escaped == [i \in 1 .. Len(parts) |->
                                            escapeIdentifier(dbType, parts[i])]
                          IN  IF \E i \in 1 .. Len(parts) : ~escaped[i].ok
                              THEN Thrown
                              ELSE Ok(Join([i \in 1 .. Len(parts) |-> escaped[i].text],
                                           <<".">>))
                     ELSE Ok(QuoteIdentifier(dbType, cleaned))

----------------------------------------------------------------------------
(* Tokens of a rendered query *)

Kw(word) == [t |-> "kw", s |-> word, c |-> <<>>, n |-> 0]
Ident(text) == [t |-> "id", s |-> "", c |-> text, n |-> 0]
Num(n) == [t |-> "num", s |-> "", c |-> <<>>, n |-> n]
Verbatim(text) == [t |-> "raw", s |-> "", c |-> text, n |-> 0]
\* a placeholder: the prefix followed by the decimal index, or a bare "?"
Placeholder(prefix, n) == [t |-> "ph", s |-> prefix, c |-> <<>>, n |-> n]

\* builder.ts:243-254 and 422-433
getParameterPlaceholder(dbType, index) ==
  CASE dbType = "postgresql" -> Placeholder("$", index)
    [] dbType = "mssql" -> Placeholder("@param", index)
    [] dbType = "oracle" -> Placeholder(":param", index)
    [] OTHER -> Placeholder("?", 0)

(* Values bound to a condition: a scalar, an array, or undefined *)
Scalar(v) == [arr |-> FALSE, v |-> <<v>>]
Array(vs) == [arr |-> TRUE, v |-> vs]
Undefined == [arr |-> FALSE, v |-> <<>>]

\* the outcome of rendering a piece of the query: its tokens and the
\* parameter list after it, or the error thrown
Rendered(toks, params) == [ok |-> TRUE, toks |-> toks, params |-> params, error |-> "none"]
Throws(error) == [ok |-> FALSE, toks |-> <<>>, params |-> <<>>, error |-> error]

\* a condition whose comparison writes the value into the text
BuildConditionInlined(dbType, condition, params) ==
  IF ~escapeIdentifier(dbType, condition.field).ok THEN Throws("Invalid identifier")
  ELSE Rendered(<<Ident(escapeIdentifier(dbType, condition.field).text),
                  Kw(condition.operator),
                  IF condition.value.v = <<>> THEN Kw("NULL")
                  ELSE Num(condition.value.v[1])>>,
                Append(params, condition.value))

\* builder.ts:208-239: one condition, with the parameters pushed so far
BuildCondition(dbType, condition, params) ==
  LET field == escapeIdentifier(dbType, condition.field)
      operator == condition.operator
      value == condition.value
  IN  IF ~field.ok THEN Throws("Invalid identifier")
      ELSE IF operator \in {"IS NULL", "IS NOT NULL"}
      THEN Rendered(<<Ident(field.text), Kw(operator)>>, params)
      ELSE IF operator \in {"IN", "NOT IN"}
      THEN IF ~value.arr THEN Throws("requires an array value")
           ELSE LET placeholders ==
                      [i \in 1 .. Len(value.v) |->
                         <<getParameterPlaceholder(dbType, Len(params) + 1)>>]
                IN  Rendered(<<Ident(field.text), Kw(operator), Kw("(")>>
                               \o Join(placeholders, <<Kw(",")>>) \o <<Kw(")")>>,
                             params \o [i \in 1 .. Len(value.v) |-> Scalar(value.v[i])])
      ELSE IF operator \in {"BETWEEN", "NOT BETWEEN"}
      THEN IF ~value.arr \/ Len(value.v) # 2
           THEN Throws("requires exactly two values")
           ELSE Rendered(<<Ident(field.text), Kw(operator),
                           getParameterPlaceholder(dbType, Len(params) + 1),
                           Kw("AND"),
                           getParameterPlaceholder(dbType, Len(params) + 2)>>,
                         params \o <<Scalar(value.v[1]), Scalar(value.v[2])>>)
      ELSE Rendered(<<Ident(field.text), Kw(operator),
                      getParameterPlaceholder(dbType, Len(params) + 1)>>,
                    Append(params, value))

\* builder.ts:240: the conditions rendered so far, joined by ' AND ' with
\* the next one; a condition that throws ends the call
JoinAnd(sofar, next) ==
  IF ~next.ok THEN next
  ELSE Rendered(sofar.toks \o (IF sofar.toks = <<>> THEN <<>> ELSE <<Kw("AND")>>)
                  \o next.toks,
                next.params)

\* builder.ts:208-240: the map over the conditions from the left, each one
\* seeing the parameters pushed by those before it
RECURSIVE MapConditions(_, _, _)
MapConditions(dbType, conditions, sofar) ==
  IF conditions = <<>> \/ ~sofar.ok THEN sofar
  ELSE MapConditions(dbType, Tail(conditions),
         JoinAnd(sofar, BuildCondition(dbType, Head(conditions), sofar.params)))

\* builder.ts:207-241: conditions.map(...).join(' AND '), pushing on params
buildConditions(dbType, conditions, params) ==
  MapConditions(dbType, conditions, Rendered(<<>>, params))

----------------------------------------------------------------------------
(* QueryBuilder: the fields of an instance and build() *)

\* limitValue and offsetValue when undefined
NoValue == -1

\* builder.ts:19-32: a new QueryBuilder(dbType)
NewBuilder(dbType) ==
  [dbType |-> dbType,
   selectFields |-> <<[field |-> <<"*">>, alias |-> <<>>]>>,
   fromTable |-> <<>>, fromAlias |-> <<>>,
   whereConditions |-> <<>>, joinClauses |-> <<>>, orderClauses |-> <<>>,
   limitValue |-> NoValue, offsetValue |-> NoValue,
   groupByFields |-> <<>>, havingConditions |-> <<>>,
   distinctFlag |-> FALSE, forUpdateFlag |-> FALSE]

\* the pieces of a clause, each rendered or thrown, in order: the tokens of
\* all of them, or the first error
RECURSIVE Pieces(_)
Pieces(rs) ==
  IF rs = <<>> THEN Rendered(<<>>, <<>>)
  ELSE IF ~Head(rs).ok THEN Head(rs)
  ELSE LET rest == Pieces(Tail(rs))
       IN  IF ~rest.ok THEN rest ELSE Rendered(Head(rs).toks \o rest.toks, <<>>)

\* the pieces of a list, joined with ', '
RECURSIVE Listed(_)
Listed(rs) ==
  IF rs = <<>> THEN Rendered(<<>>, <<>>)
  ELSE IF ~Head(rs).ok THEN Head(rs)
  ELSE IF Len(rs) = 1 THEN Head(rs)
  ELSE LET rest == Listed(Tail(rs))
       IN  IF ~rest.ok THEN rest
           ELSE Rendered(Head(rs).toks \o <<Kw(",")>> \o rest.toks, <<>>)

\* this.escapeIdentifier(identifier), as a piece
Escaped(dbType, identifier) ==
  LET e == escapeIdentifier(dbType, identifier)
  IN  IF e.ok THEN Rendered(<<Ident(e.text)>>, <<>>) ELSE Throws("Invalid identifier")

Words(toks) == Rendered(toks, <<>>)

\* builder.ts:113-117
SelectClause(b) ==
  Pieces(<<Words(<<Kw("SELECT")>> \o (IF b.distinctFlag THEN <<Kw("DISTINCT")>> ELSE <<>>)),
           Listed([i \in 1 .. Len(b.selectFields) |->
             LET field == b.selectFields[i]
             IN  IF field.alias # <<>>
                 THEN Pieces(<<Escaped(b.dbType, field.field), Words(<<Kw("AS")>>),
                               Escaped(b.dbType, field.alias)>>)
                 ELSE Escaped(b.dbType, field.field)])>>)

\* a FROM clause that never misses its table
FromClauseUnchecked(b) ==
  IF b.fromTable = <<>> THEN Words(<<Kw("FROM")>>)
  ELSE Pieces(<<Words(<<Kw("FROM")>>), Escaped(b.dbType, b.fromTable)>>
              \o (IF b.fromAlias # <<>>
                  THEN <<Words(<<Kw("AS")>>), Escaped(b.dbType, b.fromAlias)>>
                  ELSE <<>>))

\* builder.ts:119-133
FromClause(b) ==
  IF b.fromTable = <<>> THEN Throws("MISSING_FROM_TABLE")
  ELSE Pieces(<<Words(<<Kw("FROM")>>), Escaped(b.dbType, b.fromTable)>>
              \o (IF b.fromAlias # <<>>
                  THEN <<Words(<<Kw("AS")>>), Escaped(b.dbType, b.fromAlias)>>
                  ELSE <<>>))

\* builder.ts:135-142
JoinClauses(b) ==
  Pieces([i \in 1 .. Len(b.joinClauses) |->
    LET join == b.joinClauses[i]
    IN  Pieces(<<Words(<<Kw(join.type), Kw("JOIN")>>), Escaped(b.dbType, join.table)>>
               \o (IF join.alias # <<>>
                   THEN <<Words(<<Kw("AS")>>), Escaped(b.dbType, join.alias)>>
                   ELSE <<>>)
               \o <<Words(<<Kw("ON"), Verbatim(join.on)>>)>>)])

\* builder.ts:146-147 and 157-158: the keyword before the conditions
Prefixed(keyword, clause) ==
  IF ~clause.ok THEN clause
  ELSE Rendered(<<Kw(keyword)>> \o clause.toks, clause.params)

\* a condition clause that starts its parameter list afresh
ConditionClauseAfresh(b, keyword, conditions, params) ==
  IF Len(conditions) > 0
  THEN Prefixed(keyword, buildConditions(b.dbType, conditions, <<>>))
  ELSE Rendered(<<>>, params)

\* builder.ts:144-148 and 155-159
ConditionClause(b, keyword, conditions, params) ==
  IF Len(conditions) > 0
  THEN Prefixed(keyword, buildConditions(b.dbType, conditions, params))
  ELSE Rendered(<<>>, params)

\* builder.ts:150-153
GroupByClause(b) ==
  IF Len(b.groupByFields) > 0
  THEN Pieces(<<Words(<<Kw("GROUP BY")>>),
                Listed([i \in 1 .. Len(b.groupByFields) |->
                          Escaped(b.dbType, b.groupByFields[i])])>>)
  ELSE Words(<<>>)

\* builder.ts:161-167
OrderByClause(b) ==
  IF Len(b.orderClauses) > 0
  THEN Pieces(<<Words(<<Kw("ORDER BY")>>),
                Listed([i \in 1 .. Len(b.orderClauses) |->
                  Pieces(<<Escaped(b.dbType, b.orderClauses[i].field),
                           Words(<<Kw(b.orderClauses[i].direction)>>)>>)])>>)
  ELSE Words(<<>>)

\* a pagination that takes a limit or an offset of 0 as unset
PaginationClauseTruthy(b) ==
  IF b.limitValue > 0
  THEN IF b.dbType = "mssql"
       THEN IF b.offsetValue > 0
            THEN <<Kw("OFFSET"), Num(b.offsetValue), Kw("ROWS"), Kw("FETCH NEXT"),
                   Num(b.limitValue), Kw("ROWS ONLY")>>
            ELSE <<Kw("OFFSET"), Num(0), Kw("ROWS"), Kw("FETCH NEXT"),
                   Num(b.limitValue), Kw("ROWS ONLY")>>
       ELSE <<Kw("LIMIT"), Num(b.limitValue)>>
            \o (IF b.offsetValue > 0
                THEN <<Kw("OFFSET"), Num(b.offsetValue)>> ELSE <<>>)
  ELSE IF b.offsetValue > 0
       THEN IF b.dbType = "mssql"
            THEN <<Kw("OFFSET"), Num(b.offsetValue), Kw("ROWS")>>
            ELSE <<Kw("OFFSET"), Num(b.offsetValue)>>
       ELSE <<>>

\* builder.ts:169-191
PaginationClause(b) ==
  IF b.limitValue # NoValue
  THEN IF b.dbType = "mssql"
       THEN IF b.offsetValue # NoValue
            THEN <<Kw("OFFSET"), Num(b.offsetValue), Kw("ROWS"), Kw("FETCH NEXT"),
                   Num(b.limitValue), Kw("ROWS ONLY")>>
            ELSE <<Kw("OFFSET"), Num(0), Kw("ROWS"), Kw("FETCH NEXT"),
                   Num(b.limitValue), Kw("ROWS ONLY")>>
       ELSE <<Kw("LIMIT"), Num(b.limitValue)>>
            \o (IF b.offsetValue # NoValue
                THEN <<Kw("OFFSET"), Num(b.offsetValue)>> ELSE <<>>)
  ELSE IF b.offsetValue # NoValue
       THEN IF b.dbType = "mssql"
            THEN <<Kw("OFFSET"), Num(b.offsetValue), Kw("ROWS")>>
            ELSE <<Kw("OFFSET"), Num(b.offsetValue)>>
       ELSE <<>>

\* a FOR UPDATE that is rendered for every dialect
ForUpdateClauseAlways(b) ==
  IF b.forUpdateFlag THEN <<Kw("FOR UPDATE")>> ELSE <<>>

\* builder.ts:193-198
ForUpdateClause(b) ==
  IF b.forUpdateFlag /\ b.dbType # "sqlite" THEN <<Kw("FOR UPDATE")>> ELSE <<>>

\* builder.ts:200-204: build() returns { query, params }, unless a clause
\* has thrown
BuildResult(query, params) ==
  IF query.ok
  THEN [status |-> "returned", query |-> query.toks, params |-> params,
        error |-> "none"]
  ELSE [status |-> "thrown", query |-> <<>>, params |-> <<>>,
        error |-> query.error]

\* builder.ts:107-205: the result { query, params }, or the error thrown
build(b) ==
  LET where == ConditionClause(b, "WHERE", b.whereConditions, <<>>)
      having == ConditionClause(b, "HAVING", b.havingConditions, where.params)
  IN  BuildResult(Pieces(<<SelectClause(b), FromClause(b), JoinClauses(b), where,
                           GroupByClause(b), having, OrderByClause(b),
                           Words(PaginationClause(b)), Words(ForUpdateClause(b))>>),
                  having.params)

\* builder.ts:120-128, 219, 228, 272: the properties of the value thrown. The
\* missing FROM table throws a DatabaseError literal; every other throw is
\* "new Error(message)".
ThrownProperties(error) ==
  IF error = "MISSING_FROM_TABLE"
  THEN {"code", "message", "category", "level", "timestamp"}
  ELSE {"name", "message", "stack"}

NoResult == [status |-> "none", query |-> <<>>, params |-> <<>>, error |-> "none"]

\* a validateQuery that finds every builder valid
validateQueryLenient(b) ==
  [valid |-> TRUE, errors |-> <<>>,
   warnings |-> IF Len(b.selectFields) = 0
                THEN <<"No SELECT fields specified, using *">> ELSE <<>>]

\* builder.ts:436-459: { valid, errors, warnings }; the errors by their code
validateQuery(b) ==
  LET errors == IF b.fromTable = <<>> THEN <<"MISSING_FROM_TABLE">> ELSE <<>>
      warnings == IF Len(b.selectFields) = 0
                  THEN <<"No SELECT fields specified, using *">> ELSE <<>>
  IN  [valid |-> Len(errors) = 0, errors |-> errors, warnings |-> warnings]

\* validateQuery() has not been called, and build() not a second time
NoValidation ==
  [validated |-> FALSE, result |-> [valid |-> TRUE, errors |-> <<>>, warnings |-> <<>>],
   again |-> NoResult]

----------------------------------------------------------------------------
(* The fluent methods, with the arguments the model passes them *)

\* calls made on one builder before build()
MaxOps == 3

Id == <<"i", "d">>
Name == <<"n", "a", "m", "e">>
Age == <<"a", "g", "e">>
Users == <<"u", "s", "e", "r", "s">>
Orders == <<"o", "r", "d", "e", "r", "s">>
U == <<"u">>
UsersId == <<"u", "s", "e", "r", "s", ".", "i", "d">>
\* an aggregate with an alias, passed through as it is
CountAsTotal == <<"C", "O", "U", "N", "T", "(", "*", ")", " ", "a", "s", " ",
                  "t", "o", "t", "a", "l">>
\* nothing of it is left by the sanitization
Dashes == <<"-", "-">>
\* the ON text of a join
OnText == <<"o", ".", "u", "i", "d", " ", "=", " ", "u", ".", "i", "d">>

SelectArgs == {<<Id, Name>>, <<CountAsTotal>>, <<Dashes>>}
FromArgs == {<<Users, <<>>>>, <<Users, U>>, <<<<>>, <<>>>>}
WhereArgs ==
  { <<Age, ">", Scalar(18)>>, <<UsersId, "=", Undefined>>,
    <<Id, "NOT IN", Array(<<1, 2>>)>>,
    <<Id, "IN", Scalar(5)>>, <<Age, "BETWEEN", Array(<<1, 9>>)>>,
    <<Age, "NOT BETWEEN", Array(<<1>>)>>, <<Dashes, "LIKE", Scalar(7)>> }
WhereInArgs == {<<Id, <<4, 5, 6>>>>, <<Id, <<>>>>}
HavingArgs == {<<CountAsTotal, ">", Scalar(1)>>, <<Age, "IN", Array(<<7, 8>>)>>}
CountArgs == {0, 10}

Called(b) ==
  /\ nOps < MaxOps
  /\ nOps' = nOps + 1
  /\ qb' = b
  /\ res' = NoResult
  /\ val' = NoValidation
  /\ UNCHANGED <<esc, st, ex, poolVars>>

\* builder.ts:34-43: select(string[])
Select(fields) ==
  Called([qb EXCEPT !.selectFields =
            [i \in 1 .. Len(fields) |-> [field |-> fields[i], alias |-> <<>>]]])

\* builder.ts:472-476
From(table, alias) == Called([qb EXCEPT !.fromTable = table, !.fromAlias = alias])

\* builder.ts:45-48
Where(field, operator, value) ==
  Called([qb EXCEPT !.whereConditions =
            Append(@, [field |-> field, operator |-> operator, value |-> value])])

\* builder.ts:50-53
WhereIn(field, values) ==
  Called([qb EXCEPT !.whereConditions =
            Append(@, [field |-> field, operator |-> "IN", value |-> Array(values)])])

\* builder.ts:55-58
WhereNull(field) ==
  Called([qb EXCEPT !.whereConditions =
            Append(@, [field |-> field, operator |-> "IS NULL", value |-> Undefined])])

\* builder.ts:60-63
WhereNotNull(field) ==
  Called([qb EXCEPT !.whereConditions =
            Append(@, [field |-> field, operator |-> "IS NOT NULL", value |-> Undefined])])

\* builder.ts:65-76: join, leftJoin and rightJoin
JoinTable(table, on, type) ==
  Called([qb EXCEPT !.joinClauses =
            Append(@, [type |-> type, table |-> table, alias |-> <<>>, on |-> on])])

\* builder.ts:78-81
OrderBy(field, direction) ==
  Called([qb EXCEPT !.orderClauses = Append(@, [field |-> field, direction |-> direction])])

\* builder.ts:83-90: groupBy(string[])
GroupBy(fields) == Called([qb EXCEPT !.groupByFields = fields])

\* builder.ts:92-95
Having(field, operator, value) ==
  Called([qb EXCEPT !.havingConditions =
            Append(@, [field |-> field, operator |-> operator, value |-> value])])

\* builder.ts:97-100
Limit(count) == Called([qb EXCEPT !.limitValue = count])

\* builder.ts:102-105
Offset(count) == Called([qb EXCEPT !.offsetValue = count])

\* builder.ts:462-465
Distinct == Called([qb EXCEPT !.distinctFlag = TRUE])

\* builder.ts:467-470
ForUpdate == Called([qb EXCEPT !.forUpdateFlag = TRUE])

\* builder.ts:107-205
Build ==
  /\ res' = build(qb)
  /\ UNCHANGED <<qb, nOps, esc, st, val, ex, poolVars>>

\* builder.ts:436-459
ValidateQuery ==
  /\ val' = [val EXCEPT !.validated = TRUE, !.result = validateQuery(qb)]
  /\ UNCHANGED <<qb, res, nOps, esc, st, ex, poolVars>>

\* builder.ts:107-205: build() called once more on the same builder
BuildAgain ==
  /\ res.status # "none"
  /\ val' = [val EXCEPT !.again = build(qb)]
  /\ UNCHANGED <<qb, res, nOps, esc, st, ex, poolVars>>

\* the identifiers handed to escapeIdentifier: names, the wildcard, dotted
\* pairs of them, expressions passed through, and text the sanitization
\* strips
Star == <<"*">>
MixedCase == <<"N", "a", "m", "e">>
Odd == <<"t", "_", "1", "$">>
Components == {Id, Users, MixedCase, Odd, Star}
Dotted(a, b) == a \o <<".">> \o b
Expressions ==
  { CountAsTotal, <<"x", " ", "A", "S", " ", "y">>,
    <<"f", "(", "a", ".", "b", ")">>, <<"(">> }
EscapeArgs ==
  Components \cup {Dotted(a, b) : a, b \in Components} \cup Expressions
    \cup {Dashes, <<"a", "-", "b", ".", "c">>, <<"a", ".">>, <<>>}

\* builder.ts:256-294, called on a builder of dialect qb.dbType
EscapeIdentifier ==
  /\ ~esc.applied
  /\ esc' = [esc EXCEPT !.applied = TRUE,
                        !.out = escapeIdentifier(qb.dbType, esc.identifier)]
  /\ UNCHANGED <<qb, res, nOps, st, val, ex, poolVars>>

BuilderNext ==
  \/ \E fields \in SelectArgs : Select(fields)
  \/ \E a \in FromArgs : From(a[1], a[2])
  \/ \E a \in WhereArgs : Where(a[1], a[2], a[3])
  \/ \E a \in WhereInArgs : WhereIn(a[1], a[2])
  \/ WhereNull(Name)
  \/ WhereNotNull(Name)
  \/ \E type \in {"INNER", "LEFT"} : JoinTable(Orders, OnText, type)
  \/ \E direction \in {"ASC", "DESC"} : OrderBy(Name, direction)
  \/ GroupBy(<<Age>>)
  \/ \E a \in HavingArgs : Having(a[1], a[2], a[3])
  \/ \E count \in CountArgs : Limit(count)
  \/ \E count \in CountArgs : Offset(count)
  \/ Distinct
  \/ ForUpdate
  \/ Build

----------------------------------------------------------------------------
(* The static helpers buildInsert, buildUpdate and buildDelete.  A data or *)
(* criteria object is the sequence of its [key, value] entries, in the     *)
(* order of Object.keys.                                                   *)

\* builder.ts:303, 309, 331, 338: replace(/[^\w\$]/g, '')
CleanName(name) == SelectSeq(name, LAMBDA ch : IsWordChar(ch) \/ ch = "$")

\* String.prototype.trim() === ''
IsBlank(str) == \A i \in 1 .. Len(str) : str[i] = " "

\* builder.ts:400-419
escapeIdentifierStatic(identifier, dbType) ==
  IF identifier = <<>> \/ IsBlank(identifier) THEN Thrown
  ELSE Ok(QuoteIdentifier(dbType, identifier))

\* placeholders numbered from 0
getParameterPlaceholderStaticFromZero(index, dbType) ==
  CASE dbType = "postgresql" -> Placeholder("$", index - 1)
    [] dbType = "mssql" -> Placeholder("@param", index - 1)
    [] dbType = "oracle" -> Placeholder(":param", index - 1)
    [] OTHER -> Placeholder("?", 0)

\* builder.ts:422-433
getParameterPlaceholderStatic(index, dbType) ==
  CASE dbType = "postgresql" -> Placeholder("$", index)
    [] dbType = "mssql" -> Placeholder("@param", index)
    [] dbType = "oracle" -> Placeholder(":param", index)
    [] OTHER -> Placeholder("?", 0)

\* builder.ts:303-306: the table name, cleaned and escaped
CleanTable(table, dbType) ==
  IF CleanName(table) = <<>> THEN Throws("Invalid table name")
  ELSE Rendered(<<Ident(escapeIdentifierStatic(CleanName(table), dbType).text)>>, <<>>)

\* builder.ts:308-314: a column name, cleaned and escaped
CleanKey(key, dbType) ==
  IF CleanName(key) = <<>> THEN Throws("Invalid column name")
  ELSE Rendered(<<Ident(escapeIdentifierStatic(CleanName(key), dbType).text)>>, <<>>)

\* builder.ts:337-345, 347-355 and 383-390: escaped = placeholder
Assigned(key, index, dbType) ==
  Pieces(<<CleanKey(key, dbType),
           Words(<<Kw("="), getParameterPlaceholderStatic(index, dbType)>>)>>)

\* the pieces of a list, joined with ' AND '
RECURSIVE Conjoined(_)
Conjoined(rs) ==
  IF rs = <<>> THEN Rendered(<<>>, <<>>)
  ELSE IF ~Head(rs).ok THEN Head(rs)
  ELSE IF Len(rs) = 1 THEN Head(rs)
  ELSE Pieces(<<Head(rs), Words(<<Kw("AND")>>), Conjoined(Tail(rs))>>)

\* Object.values
Values(object) == [i \in 1 .. Len(object) |-> object[i].value]

\* builder.ts:297-319
buildInsert(table, data, dbType) ==
  BuildResult(
    Pieces(<<IF CleanTable(table, dbType).ok THEN Words(<<>>)
             ELSE CleanTable(table, dbType),
             Words(<<Kw("INSERT INTO")>>), CleanTable(table, dbType), Words(<<Kw("(")>>),
             Listed([i \in 1 .. Len(data) |-> CleanKey(data[i].key, dbType)]),
             Words(<<Kw(")"), Kw("VALUES"), Kw("(")>>),
             Listed([i \in 1 .. Len(data) |->
                       Words(<<getParameterPlaceholderStatic(i, dbType)>>)]),
             Words(<<Kw(")")>>)>>),
    Values(data))

\* builder.ts:321-369
buildUpdate(table, data, criteria, dbType) ==
  BuildResult(
    Pieces(<<IF Len(data) = 0 \/ Len(criteria) = 0
             THEN Throws("Update operation requires both data and criteria.")
             ELSE Words(<<>>),
             IF CleanTable(table, dbType).ok THEN Words(<<>>)
             ELSE CleanTable(table, dbType),
             Words(<<Kw("UPDATE")>>), CleanTable(table, dbType), Words(<<Kw("SET")>>),
             Listed([i \in 1 .. Len(data) |-> Assigned(data[i].key, i, dbType)]),
             IF Len(criteria) > 0 THEN Words(<<Kw("WHERE")>>) ELSE Words(<<>>),
             Conjoined([i \in 1 .. Len(criteria) |->
                          Assigned(criteria[i].key, Len(data) + i, dbType)])>>),
    Values(data) \o Values(criteria))

\* a DELETE that accepts empty criteria
buildDeleteUnconditional(table, criteria, dbType) ==
  BuildResult(
    Pieces(<<IF CleanTable(table, dbType).ok THEN Words(<<>>)
             ELSE CleanTable(table, dbType),
             Words(<<Kw("DELETE FROM")>>), CleanTable(table, dbType),
             IF Len(criteria) > 0 THEN Words(<<Kw("WHERE")>>) ELSE Words(<<>>),
             Conjoined([i \in 1 .. Len(criteria) |->
                          Assigned(criteria[i].key, i, dbType)])>>),
    Values(criteria))

\* builder.ts:371-397
buildDelete(table, criteria, dbType) ==
  BuildResult(
    Pieces(<<IF Len(criteria) = 0
             THEN Throws("Delete operation requires criteria.")
             ELSE Words(<<>>),
             IF CleanTable(table, dbType).ok THEN Words(<<>>)
             ELSE CleanTable(table, dbType),
             Words(<<Kw("DELETE FROM")>>), CleanTable(table, dbType), Words(<<Kw("WHERE")>>),
             Conjoined([i \in 1 .. Len(criteria) |->
                          Assigned(criteria[i].key, i, dbType)])>>),
    Values(criteria))

\* no static helper has been called
NoStatic ==
  [op |-> "none", table |-> <<>>, data |-> <<>>, criteria |-> <<>>,
   dbType |-> "mysql", out |-> NoResult]

Entry(key, value) == [key |-> key, value |-> value]

\* builder.ts:486-491: no QueryExecutor has been constructed
NoExecutor ==
  [pc |-> "idle", type |-> "mysql", op |-> "none", table |-> <<>>,
   data |-> <<>>, criteria |-> <<>>, sql |-> NoResult,
   adapter |-> 0, outcome |-> "none", finished |-> 0]

\* the tables and the objects handed to the static helpers
TableArgs == {Users, Dashes, <<"u", "s", "e", "r", "s", ";">>}
ObjectArgs ==
  { <<>>, <<Entry(Name, 1)>>, <<Entry(Id, 7)>>, <<Entry(Dashes, 2)>>,
    <<Entry(Id, 7), Entry(Age, 3)>>, <<Entry(Name, 1), Entry(Dashes, 2)>>,
    <<Entry(<<"a", "-", "b">>, 4), Entry(<<"a", "b">>, 5)>> }

Static(op, table, data, criteria, dbType, out) ==
  /\ st' = [op |-> op, table |-> table, data |-> data, criteria |-> criteria,
            dbType |-> dbType, out |-> out]
  /\ UNCHANGED <<qb, res, nOps, esc, val, ex, poolVars>>

\* builder.ts:297-319
BuildInsert(table, data, dbType) ==
  /\ st.op = "none"
  /\ Static("insert", table, data, <<>>, dbType, buildInsert(table, data, dbType))

\* builder.ts:321-369
BuildUpdate(table, data, criteria, dbType) ==
  /\ st.op = "none"
  /\ Static("update", table, data, criteria, dbType,
            buildUpdate(table, data, criteria, dbType))

\* builder.ts:371-397
BuildDelete(table, criteria, dbType) ==
  /\ st.op = "none"
  /\ Static("delete", table, <<>>, criteria, dbType,
            buildDelete(table, criteria, dbType))

StaticNext ==
  \E table \in TableArgs, dbType \in Dialects :
    \/ \E data \in ObjectArgs : BuildInsert(table, data, dbType)
    \/ \E data, criteria \in ObjectArgs : BuildUpdate(table, data, criteria, dbType)
    \/ \E criteria \in ObjectArgs : BuildDelete(table, criteria, dbType)

----------------------------------------------------------------------------
(* QueryExecutor: one executor, its calls made one after the other *)

\* the caller of the pool the executor is
Executor == 1

\* builder.ts:486-491: this.config of an executor of dialect dbType
ExecutorConfig(dbType) ==
  [type |-> dbType, username |-> "root", host |-> "db", port |-> 3306,
   database |-> "app"]

\* the objects handed to create, update and delete
ExecutorObjectArgs ==
  { <<>>, <<Entry(Name, 1)>>, <<Entry(Id, 7), Entry(Age, 3)>> }

\* builder.ts:493-497: create, update or delete has built its statement,
\* or has thrown doing so; executeQuery calls getConnection and suspends
ExecuteQuery(op, table, data, criteria, sql) ==
  IF sql.status = "thrown"
  THEN /\ ex' = [ex EXCEPT !.op = op, !.table = table, !.data = data,
                           !.criteria = criteria, !.sql = sql, !.adapter = 0,
                           !.outcome = "Error", !.finished = @ + 1]
       /\ UNCHANGED poolVars
  ELSE /\ GetConnectionFrom(Executor, ExecutorConfig(ex.type))
       /\ ex' = [ex EXCEPT !.pc = "getConnection", !.op = op, !.table = table,
                           !.data = data, !.criteria = criteria, !.sql = sql,
                           !.adapter = 0, !.outcome = "none"]

\* builder.ts:507-513
Create(tableName, data) ==
  /\ ex.pc = "idle"
  /\ ex.finished < MaxCalls
  /\ ExecuteQuery("create", tableName, data, <<>>,
                  buildInsert(tableName, data, "mysql"))
  /\ UNCHANGED <<qb, res, nOps, esc, st, val>>

\* builder.ts:542-553
Update(tableName, data, criteria) ==
  /\ ex.pc = "idle"
  /\ ex.finished < MaxCalls
  /\ ExecuteQuery("update", tableName, data, criteria,
                  buildUpdate(tableName, data, criteria, "mysql"))
  /\ UNCHANGED <<qb, res, nOps, esc, st, val>>

\* builder.ts:555-565
Delete(tableName, criteria) ==
  /\ ex.pc = "idle"
  /\ ex.finished < MaxCalls
  /\ ExecuteQuery("delete", tableName, <<>>, criteria,
                  buildDelete(tableName, criteria, "mysql"))
  /\ UNCHANGED <<qb, res, nOps, esc, st, val>>

\* builder.ts:497-498: getConnection has settled; adapter.execute(query,
\* params) is called on the adapter it returned, or its rejection leaves
\* executeQuery
ExecuteQueryResume ==
  /\ ex.pc = "getConnection"
  /\ calls[Executor].pc = "idle"
  /\ IF calls[Executor].result = "adapter"
     THEN ex' = [ex EXCEPT !.pc = "execute", !.adapter = calls[Executor].ret]
     ELSE ex' = [ex EXCEPT !.pc = "idle", !.outcome = calls[Executor].result,
                           !.finished = @ + 1]
  /\ UNCHANGED <<qb, res, nOps, esc, st, val, poolVars>>

\* builder.ts:498-504: adapter.execute has answered; executeQuery returns
\* result.data or throws, and the method ends there
ExecuteQueryDone(success) ==
  /\ ex.pc = "execute"
  /\ ex' = [ex EXCEPT !.pc = "idle",
                      !.outcome = IF success THEN "returned" ELSE "Error",
                      !.finished = @ + 1]
  /\ UNCHANGED <<qb, res, nOps, esc, st, val, poolVars>>

ExecutorNext ==
  \/ \E data \in ExecutorObjectArgs : Create(Users, data)
  \/ \E data, criteria \in ExecutorObjectArgs : Update(Users, data, criteria)
  \/ \E criteria \in ExecutorObjectArgs : Delete(Users, criteria)
  \/ ExecuteQueryResume
  \/ \E success \in BOOLEAN : ExecuteQueryDone(success)
  \/ \E success \in BOOLEAN : ConnectDone(Executor, success)
  \/ WaitWake(Executor)
  \/ Tick

----------------------------------------------------------------------------
(* Specifications *)

\* no builder is in use
NoEscape == [identifier |-> <<>>, applied |-> FALSE, out |-> Thrown]

QbIdle ==
  /\ qb = NewBuilder("mysql") /\ res = NoResult /\ nOps = 0 /\ esc = NoEscape
  /\ st = NoStatic /\ val = NoValidation /\ ex = NoExecutor

\* the pool as the class initialisation leaves it
Init ==
  /\ PoolInit
  /\ QbIdle

\* concurrent callers
SpecAcquire == Init /\ [][CallerNext]_vars

\* concurrent callers and the eviction timer
SpecSweep == Init /\ [][CallerNext \/ SweepNext]_vars

\* as SpecSweep, where no operation of a caller runs between the start and
\* the end of a run of the sweep
SweepAloneNext ==
  \/ sweep.pc = "idle" /\ CallerNext
  \/ SweepNext

SpecSweepAlone == Init /\ [][SweepAloneNext]_vars

\* concurrent callers and a shutdown
SpecShutdown == Init /\ [][CallerNext \/ ShutdownNext]_vars

\* concurrent callers, the eviction timer and a shutdown
ShutdownSweepNext == CallerNext \/ SweepNext \/ ShutdownNext

SpecShutdownSweep == Init /\ [][ShutdownSweepNext]_vars

\* as SpecAcquire; time passes and the timers of the waiters fire
SpecAcquireFair ==
  SpecAcquire /\ WF_vars(Tick) /\ \A c \in Callers : WF_vars(WaitWake(c))

\* as SpecShutdown, with adapters whose disconnect() never rejects (as those
\* of src/src/database/adapters, which catch and report a failure)
ShutdownNoThrowNext ==
  \/ GracefulShutdown
  \/ ShutdownWake
  \/ \E outcome \in {"ok", "failed"} : CleanupDisconnectDone(outcome)

SpecShutdownNoThrow == Init /\ [][CallerNext \/ ShutdownNoThrowNext]_vars

\* a builder of any dialect: fluent calls, then build()
BuilderInit ==
  /\ PoolInit
  /\ \E dbType \in Dialects : qb = NewBuilder(dbType)
  /\ res = NoResult
  /\ nOps = 0
  /\ esc = NoEscape
  /\ st = NoStatic
  /\ val = NoValidation
  /\ ex = NoExecutor

SpecBuilder == BuilderInit /\ [][BuilderNext]_vars

\* a builder of any dialect: fluent calls, then build(), validateQuery() and
\* build() again in any order
RepeatNext == BuilderNext \/ ValidateQuery \/ BuildAgain

SpecRepeat == BuilderInit /\ [][RepeatNext]_vars

\* escapeIdentifier applied to one identifier, in any dialect
EscapeInit ==
  /\ PoolInit
  /\ \E dbType \in Dialects : qb = NewBuilder(dbType)
  /\ res = NoResult
  /\ nOps = 0
  /\ \E identifier \in EscapeArgs : esc = [NoEscape EXCEPT !.identifier = identifier]
  /\ st = NoStatic
  /\ val = NoValidation
  /\ ex = NoExecutor

SpecEscape == EscapeInit /\ [][EscapeIdentifier]_vars

\* one call of a static helper
SpecStatic == Init /\ [][StaticNext]_vars

\* the two ways identifiers reach a statement: escapeIdentifier of a builder
\* applied to one identifier, and one call of a static helper
SanitizeNext == EscapeIdentifier \/ StaticNext

SpecSanitize == EscapeInit /\ [][SanitizeNext]_vars

\* the two ways a statement is built: a builder of any dialect with its fluent
\* calls and build(), or one call of a static helper
TextNext ==
  \/ st.op = "none" /\ BuilderNext
  \/ nOps = 0 /\ res.status = "none" /\ StaticNext

SpecText == BuilderInit /\ [][TextNext]_vars

\* an executor of any dialect, the only client of the pool
ExecutorInit ==
  /\ PoolInit
  /\ qb = NewBuilder("mysql")
  /\ res = NoResult
  /\ nOps = 0
  /\ esc = NoEscape
  /\ st = NoStatic
  /\ val = NoValidation
  /\ \E dbType \in Dialects : ex = [NoExecutor EXCEPT !.type = dbType]

SpecExecutor == ExecutorInit /\ [][ExecutorNext]_vars

----------------------------------------------------------------------------
(* Claims about the connection pool *)

\* the entries of the array of identity p
Entries(arrs, p) == {arrs[p][i] : i \in 1 .. Len(arrs[p])}

\* the entries of the pools the registry holds
Pooled(reg, arrs) == UNION {Entries(arrs, reg[i].arr) : i \in 1 .. Len(reg)}

\* C1: no adapter is ever in the hands of two callers that have not released
\* it: getConnection never hands out an adapter that was handed out and not
\* released.
C1_MutualExclusion == \A a \in AdapterIds : held[a] <= 1

\* C2: in every reachable state the pool of every key holds at most
\* MAX_POOL_SIZE entries.
C2_Capacity ==
  \A i \in 1 .. Len(pools) : Len(arrays[pools[i].arr]) <= MAX_POOL_SIZE

\* C3: a step of the eviction sweep removes from a pool no entry that is
\* inUse=true at the moment of the removal.
C3_EvictionSparesInUse ==
  [][(sweep.pc = "disconnect" /\ sweep' # sweep)
       => \A a \in Pooled(pools, arrays) \ Pooled(pools', arrays') : ~conns[a].inUse]_vars

\* the pool registered under the key of a config holds MAX_POOL_SIZE
\* entries, all of them in use
FullAllInUse(config) ==
  LET pool == PoolsGet(pools, getConfigKey(config))
  IN  /\ pool # 0
      /\ Len(arrays[pool]) = MAX_POOL_SIZE
      /\ \A a \in Entries(arrays, pool) : conns[a].inUse

\* the idle entries of the pool registered under the key of a config
IdleEntries(config) ==
  LET pool == PoolsGet(pools, getConfigKey(config))
  IN  IF pool = 0 THEN {} ELSE {a \in Entries(arrays, pool) : ~conns[a].inUse}

\* the steps of a call that finds the pool full and all in use, and of a
\* waiting call
C4_Steps ==
  [][\A c \in Callers :
       /\ (nCalls' = nCalls + 1 /\ calls'[c] # calls[c] /\ FullAllInUse(calls'[c].cfg))
            => /\ calls'[c].pc = "sleep"
               /\ arrays' = arrays /\ conns' = conns /\ nextAdapter' = nextAdapter
       /\ (calls[c].pc = "sleep" /\ calls'[c] # calls[c])
            => /\ arrays' = arrays /\ nextAdapter' = nextAdapter
               /\ IF now - calls[c].start >= WAIT_TIMEOUT
                  THEN /\ calls'[c].pc = "idle" /\ calls'[c].result = "POOL_TIMEOUT"
                       /\ conns' = conns /\ held' = held
                  ELSE IF IdleEntries(calls[c].cfg) # {}
                  THEN /\ calls'[c].pc = "idle" /\ calls'[c].result = "adapter"
                       /\ calls'[c].ret \in IdleEntries(calls[c].cfg)
                       /\ conns'[calls'[c].ret].inUse
                       /\ held'[calls'[c].ret] = held[calls'[c].ret] + 1
                  ELSE /\ calls'[c].pc = "sleep"
                       /\ conns' = conns /\ held' = held]_vars

\* a waiting call whose deadline the clock of the model reaches ends
C4_Ends ==
  \A c \in Callers :
    (calls[c].pc = "sleep" /\ calls[c].start + WAIT_TIMEOUT + POLL_INTERVAL - 1 <= MaxTime)
      ~> (calls[c].pc = "idle")

\* C4 (as amended): a call that finds the pool of its key full and all in
\* use creates no entry and waits; a waiting call creates no entry, at each
\* poll made before the timeout has elapsed it returns an idle entry of the
\* pool, marked inUse=true, if there is one, at the first poll made after
\* the timeout has elapsed it rejects with POOL_TIMEOUT, and it does end.
C4_BoundedWait == C4_Steps /\ C4_Ends

\* C4 (witness): a call has waited and was rejected with POOL_TIMEOUT while
\* the pool was full and all in use
C4_Witness ==
  \E c \in Callers : calls[c].result = "POOL_TIMEOUT" /\ FullAllInUse(calls[c].cfg)

\* C4 (as claimed): a waiting call, its timer firing on time, is not
\* rejected with POOL_TIMEOUT when an entry of its pool was released before
\* the timeout elapsed (and is still idle).
C4_ReleasedIsReturned ==
  [][\A c \in Callers :
       (calls[c].pc = "sleep" /\ now = calls[c].wake /\ calls'[c].pc = "idle"
          /\ calls'[c].result = "POOL_TIMEOUT")
         => ~\E a \in IdleEntries(calls[c].cfg) :
               conns[a].lastUsed - calls[c].start < WAIT_TIMEOUT]_vars

\* C5: when gracefulShutdown completes the registry holds no pool, no entry
\* is left in any array, and disconnect() was called on every adapter that
\* was pooled.
C5_ShutdownEmptiesRegistry ==
  [][(shut.pc # "done" /\ shut'.pc = "done")
       => /\ pools' = <<>>
          /\ \A p \in ArrIds : arrays'[p] = <<>>
          /\ \A a \in Pooled(pools, arrays) : adapters'[a].disconnectCalled]_vars

----------------------------------------------------------------------------
(* Claims about the query builder *)

NumberedDialects == {"postgresql", "mssql", "oracle"}

IsPlaceholder(tok) == tok.t = "ph"

\* the placeholders of a query, left to right
PlaceholdersOf(query) == SelectSeq(query, IsPlaceholder)

\* C6: in a query that build() returns for a numbered-placeholder dialect the
\* indices of the placeholders, left to right, are 1, 2, ..., params.length.
C6_PlaceholderIndices ==
  (res.status = "returned" /\ qb.dbType \in NumberedDialects)
    => LET ph == PlaceholdersOf(res.query)
       IN  /\ Len(ph) = Len(res.params)
           /\ \A i \in 1 .. Len(ph) : ph[i].n = i

\* the values a condition binds, by the arity of its operator
BoundBy(condition) ==
  IF condition.operator \in {"IS NULL", "IS NOT NULL"} THEN <<>>
  ELSE IF condition.operator \in {"IN", "NOT IN", "BETWEEN", "NOT BETWEEN"}
  THEN [i \in 1 .. Len(condition.value.v) |-> Scalar(condition.value.v[i])]
  ELSE <<condition.value>>

RECURSIVE BoundByAll(_)
BoundByAll(conditions) ==
  IF conditions = <<>> THEN <<>>
  ELSE BoundBy(Head(conditions)) \o BoundByAll(Tail(conditions))

\* the tokens of a query before its HAVING keyword
RECURSIVE BeforeHaving(_)
BeforeHaving(query) ==
  IF query = <<>> \/ Head(query) = Kw("HAVING") THEN <<>>
  ELSE <<Head(query)>> \o BeforeHaving(Tail(query))

\* C7: a query that build() returns holds, for every condition, as many
\* placeholders as its operator binds values (none for a NULL check, the
\* length of the array for IN, two for BETWEEN, one otherwise), those of the
\* WHERE conditions before those of the HAVING conditions, and params lists
\* the bound values in that order.
C7_PlaceholderCounts ==
  res.status = "returned"
    => /\ res.params = BoundByAll(qb.whereConditions) \o BoundByAll(qb.havingConditions)
       /\ Len(PlaceholdersOf(res.query)) = Len(res.params)
       /\ Len(PlaceholdersOf(BeforeHaving(res.query)))
            = Len(BoundByAll(qb.whereConditions))
       /\ \A i \in 1 .. Len(qb.whereConditions) :
            LET condition == qb.whereConditions[i]
            IN  /\ condition.operator \in {"BETWEEN", "NOT BETWEEN"}
                     => Len(BoundBy(condition)) = 2
                /\ condition.operator \in {"IN", "NOT IN"}
                     => condition.value.arr

\* C7 (witness): build() has returned a query with an IN list, a BETWEEN or
\* another operator in WHERE, and a HAVING condition
C7_Witness ==
  /\ res.status = "returned"
  /\ qb.havingConditions # <<>>
  /\ \E i \in 1 .. Len(qb.whereConditions) :
       qb.whereConditions[i].operator = "IN" /\ Len(qb.whereConditions[i].value.v) >= 2

\* every select field renders
SelectRenders(b) ==
  \A i \in 1 .. Len(b.selectFields) :
    escapeIdentifier(b.dbType, b.selectFields[i].field).ok

\* C8 (as claimed): build() on a builder without a FROM table throws
\* MISSING_FROM_TABLE; a query returned for an empty WHERE list holds no WHERE.
C8_MissingFromAlways ==
  /\ (res.status # "none" /\ qb.fromTable = <<>>)
       => (res.status = "thrown" /\ res.error = "MISSING_FROM_TABLE")
  /\ (res.status = "returned" /\ qb.whereConditions = <<>>)
       => \A i \in 1 .. Len(res.query) : res.query[i] # Kw("WHERE")

\* C8 (as amended): build() on a builder without a FROM table throws and
\* returns no query; what it throws is MISSING_FROM_TABLE when every select
\* field renders, and the invalid-identifier error of the select clause
\* otherwise; a query returned for an empty WHERE list holds no WHERE.
C8_MissingFrom ==
  /\ (res.status # "none" /\ qb.fromTable = <<>>)
       => /\ res.status = "thrown" /\ res.query = <<>>
          /\ res.error = IF SelectRenders(qb) THEN "MISSING_FROM_TABLE"
                         ELSE "Invalid identifier"
  /\ (res.status = "returned" /\ qb.whereConditions = <<>>)
       => \A i \in 1 .. Len(res.query) : res.query[i] # Kw("WHERE")

\* C8 (witness): build() has thrown MISSING_FROM_TABLE on a builder with
\* conditions and no FROM table
C8_Witness ==
  /\ res.status = "thrown" /\ res.error = "MISSING_FROM_TABLE"
  /\ qb.fromTable = <<>> /\ qb.whereConditions # <<>>

\* the pagination clause of the dialect contract table
ContractPagination(dbType, n, m) ==
  IF dbType \in {"mssql", "oracle"}
  THEN <<Kw("OFFSET"), Num(m), Kw("ROWS"), Kw("FETCH NEXT"), Num(n), Kw("ROWS ONLY")>>
  ELSE <<Kw("LIMIT"), Num(n), Kw("OFFSET"), Num(m)>>

\* a query without its FOR UPDATE
BeforeForUpdate(query) ==
  IF query # <<>> /\ query[Len(query)] = Kw("FOR UPDATE")
  THEN SubSeq(query, 1, Len(query) - 1) ELSE query

\* C9: with limit n and offset m both set, the query that build() returns
\* ends (before FOR UPDATE) with the pagination clause of the contract table.
C9_Pagination ==
  (res.status = "returned" /\ qb.limitValue # NoValue /\ qb.offsetValue # NoValue)
    => LET clause == ContractPagination(qb.dbType, qb.limitValue, qb.offsetValue)
           query == BeforeForUpdate(res.query)
       IN  /\ Len(query) >= Len(clause)
           /\ SubSeq(query, Len(query) - Len(clause) + 1, Len(query)) = clause

\* C10: escaping a.b, for components a and b that are names or the
\* wildcard, gives escape(a), a dot, escape(b); the wildcard and every text
\* holding "(" or " as " (in any case) is returned as it is.
C10_EscapeDotted ==
  esc.applied
    => /\ \A a, b \in Components :
            esc.identifier = Dotted(a, b)
              => /\ esc.out.ok
                 /\ esc.out.text = escapeIdentifier(qb.dbType, a).text \o <<".">>
                                     \o escapeIdentifier(qb.dbType, b).text
       /\ (\/ esc.identifier = Star
           \/ Includes(esc.identifier, <<"(">>)
           \/ Includes(toLowerCase(esc.identifier), <<" ", "a", "s", " ">>))
            => esc.out = Ok(esc.identifier)

----------------------------------------------------------------------------
(* Claims about the static helpers *)

\* the tokens of a query from its WHERE keyword on
RECURSIVE FromWhere(_)
FromWhere(query) ==
  IF query = <<>> \/ Head(query) = Kw("WHERE") THEN query
  ELSE FromWhere(Tail(query))

\* the tokens are WHERE followed by one "column = placeholder" for each key
\* of the criteria, in order, joined by AND
IsWhereOf(toks, criteria, dbType) ==
  /\ Len(toks) = 4 * Len(criteria)
  /\ toks[1] = Kw("WHERE")
  /\ \A i \in 1 .. Len(criteria) :
       /\ toks[4 * i - 2] = Ident(QuoteIdentifier(dbType, CleanName(criteria[i].key)))
       /\ toks[4 * i - 1] = Kw("=")
       /\ toks[4 * i].t = "ph"
       /\ i < Len(criteria) => toks[4 * i + 1] = Kw("AND")

\* C11: buildUpdate and buildDelete throw when the criteria have no key, and
\* every statement they return ends with a WHERE clause holding exactly one
\* "column = placeholder" per key of the criteria, joined by AND.
C11_NoUnconditionalDml ==
  st.op \in {"update", "delete"}
    => /\ st.out.status \in {"returned", "thrown"}
       /\ st.criteria = <<>> => st.out.status = "thrown"
       /\ st.out.status = "returned"
            => /\ st.criteria # <<>>
               /\ IsWhereOf(FromWhere(st.out.query), st.criteria, st.dbType)
               /\ Len(SelectSeq(st.out.query, LAMBDA tok : tok = Kw("WHERE"))) = 1

\* C11 (witness): buildUpdate has returned a statement for criteria of two keys
C11_Witness ==
  st.op = "update" /\ st.out.status = "returned" /\ Len(st.criteria) = 2

----------------------------------------------------------------------------
(* Further claims about the connection pool *)

\* C12: a getConnection call that finds an idle entry in the pool of its key
\* creates no adapter and health-checks the first idle entry; when the health
\* check reports healthy the call returns the adapter of that entry, and in
\* that step the entry becomes inUse=true, its use count grows by exactly 1,
\* no other entry changes and no pool changes its size.
C12_ReuseAfterRelease ==
  [][\A c \in Callers :
       /\ (nCalls' = nCalls + 1 /\ calls'[c] # calls[c]
             /\ IdleEntries(calls'[c].cfg) # {})
            => /\ calls'[c].pc = "healthCheck"
               /\ calls'[c].avail \in IdleEntries(calls'[c].cfg)
               /\ nextAdapter' = nextAdapter /\ arrays' = arrays /\ conns' = conns
       /\ (calls[c].pc = "healthCheck" /\ calls'[c].pc = "idle")
            => /\ calls'[c].result = "adapter"
               /\ calls'[c].ret = calls[c].avail
               /\ conns'[calls[c].avail].inUse
               /\ conns'[calls[c].avail].connectionCount
                    = conns[calls[c].avail].connectionCount + 1
               /\ \A a \in AdapterIds \ {calls[c].avail} : conns'[a] = conns[a]
               /\ nextAdapter' = nextAdapter /\ arrays' = arrays /\ pools' = pools]_vars

\* C12 (witness): a call has returned the one adapter ever created, for the
\* second time
C12_Witness ==
  \E c \in Callers :
    /\ calls[c].result = "adapter" /\ nextAdapter = 2
    /\ conns[calls[c].ret].inUse /\ conns[calls[c].ret].connectionCount = 2

\* the steps of a call on the create path
C13_Steps(c) ==
  \* connect() is called by a call that starts or one that has disposed of
  \* an unhealthy entry, on a new adapter
  /\ (calls[c].pc # "connect" /\ calls'[c].pc = "connect")
       => /\ calls[c].pc \in {"idle", "disconnect"}
          /\ nextAdapter' = nextAdapter + 1
  \* the call ends when connect() settles
  /\ (calls[c].pc = "connect" /\ calls'[c] # calls[c]) => calls'[c].pc = "idle"
  \* a failure rejects with POOL_CONNECTION_FAILED and changes no pool
  /\ (calls[c].pc = "connect" /\ calls'[c] # calls[c] /\ calls'[c].result # "adapter")
       => /\ calls'[c].result = "POOL_CONNECTION_FAILED"
          /\ pools' = pools /\ arrays' = arrays /\ conns' = conns /\ held' = held
          /\ nextAdapter' = nextAdapter

\* C13 (as amended): connect() is attempted at most once per call; when it
\* fails the call rejects with POOL_CONNECTION_FAILED and the failure adds no
\* entry to and removes no entry from any pool.
C13_CreationFailure == [][\A c \in Callers : C13_Steps(c)]_vars

\* C13 (witness): a call was rejected with POOL_CONNECTION_FAILED
C13_Witness == \E c \in Callers : calls[c].result = "POOL_CONNECTION_FAILED"

\* C13 (as claimed): when a call is rejected with POOL_CONNECTION_FAILED the
\* pool of its key holds the entries it held before the call, the idle entry
\* the call found in it when it started included.
C13_PoolAsBefore ==
  [][\A c \in Callers :
       (calls[c].pc = "connect" /\ calls'[c].result = "POOL_CONNECTION_FAILED"
          /\ calls[c].avail # 0)
         => calls[c].avail \in Entries(arrays', calls[c].pool)]_vars

\* the entries of a pool of the key of some config that wrap the adapter
Matching(adapter) ==
  {a \in AdapterIds : a = adapter /\ \E config \in Configs :
     LET pool == PoolsGet(pools, getConfigKey(config))
     IN  pool # 0 /\ a \in Entries(arrays, pool)}

\* C14: a release of an adapter is one step; it sets inUse=false and
\* lastUsed=now on the entry of the key's pool that wraps that adapter and
\* changes nothing else of any entry, adds and removes no entry and no pool,
\* and changes no entry at all when the key has no pool or its pool has no
\* entry for the adapter.
C14_ReleaseFrame ==
  [][\A adapter \in AdapterIds :
       held'[adapter] < held[adapter]
         => /\ pools' = pools /\ arrays' = arrays /\ adapters' = adapters
            /\ calls' = calls /\ now' = now
            /\ \A a \in AdapterIds :
                 conns'[a] = IF a \in Matching(adapter)
                             THEN [conns[a] EXCEPT !.inUse = FALSE, !.lastUsed = now]
                             ELSE conns[a]]_vars

\* C14 (witness): an adapter was handed out and released, and its entry is
\* idle in its pool next to an entry that is in use
C14_Witness ==
  \E a, b \in AdapterIds :
    /\ held[a] = 0 /\ conns[a].connectionCount >= 1 /\ ~conns[a].inUse
    /\ a \in Matching(a) /\ b \in Matching(b) /\ conns[b].inUse

----------------------------------------------------------------------------
(* Further claims about the query builder *)

\* the place of a keyword in the fixed order of the clauses, 0 for a token
\* that starts no clause
ClauseRank(tok) ==
  IF tok.t # "kw" THEN 0
  ELSE CASE tok.s = "SELECT" -> 1
         [] tok.s = "FROM" -> 2
         [] tok.s = "JOIN" -> 3
         [] tok.s = "WHERE" -> 4
         [] tok.s = "GROUP BY" -> 5
         [] tok.s = "HAVING" -> 6
         [] tok.s = "ORDER BY" -> 7
         [] tok.s \in {"LIMIT", "OFFSET"} -> 8
         [] tok.s = "FOR UPDATE" -> 9
         [] OTHER -> 0

StartsClause(tok) == ClauseRank(tok) > 0

\* how many times a keyword is in a query
Count(query, word) == Len(SelectSeq(query, LAMBDA tok : tok = Kw(word)))

IsOnText(tok) == tok.t = "raw"

\* C15: in a query that build() returns the clauses are in the order SELECT
\* [DISTINCT], FROM, the JOINs in call order with their ON text as given,
\* WHERE, GROUP BY, HAVING, ORDER BY, pagination, FOR UPDATE; WHERE, GROUP BY,
\* HAVING and ORDER BY are there exactly when their list is not empty; FOR
\* UPDATE is the last token exactly when forUpdate() was called and the
\* dialect is not sqlite.
C15_ClauseOrder ==
  res.status = "returned"
    => LET query == res.query
           starts == SelectSeq(query, StartsClause)
       IN  /\ \A i \in 1 .. Len(starts) - 1 :
                /\ ClauseRank(starts[i]) <= ClauseRank(starts[i + 1])
                /\ ClauseRank(starts[i]) = ClauseRank(starts[i + 1])
                     => ClauseRank(starts[i]) \in {3, 8}
           /\ query[1] = Kw("SELECT")
           /\ (query[2] = Kw("DISTINCT")) = qb.distinctFlag
           /\ Count(query, "DISTINCT") = IF qb.distinctFlag THEN 1 ELSE 0
           /\ Count(query, "FROM") = 1
           /\ Count(query, "AS") = IF qb.fromAlias # <<>> THEN 1 ELSE 0
           /\ Count(query, "JOIN") = Len(qb.joinClauses)
           /\ SelectSeq(query, IsOnText)
                = [i \in 1 .. Len(qb.joinClauses) |-> Verbatim(qb.joinClauses[i].on)]
           /\ Count(query, "WHERE") = IF qb.whereConditions # <<>> THEN 1 ELSE 0
           /\ Count(query, "GROUP BY") = IF qb.groupByFields # <<>> THEN 1 ELSE 0
           /\ Count(query, "HAVING") = IF qb.havingConditions # <<>> THEN 1 ELSE 0
           /\ Count(query, "ORDER BY") = IF qb.orderClauses # <<>> THEN 1 ELSE 0
           /\ (query[Len(query)] = Kw("FOR UPDATE"))
                = (qb.forUpdateFlag /\ qb.dbType # "sqlite")
           /\ Count(query, "FOR UPDATE")
                = IF qb.forUpdateFlag /\ qb.dbType # "sqlite" THEN 1 ELSE 0

\* C15 (witness): build() has returned a query with a WHERE clause for a
\* sqlite builder on which forUpdate() was called
C15_Witness ==
  /\ res.status = "returned" /\ qb.dbType = "sqlite"
  /\ qb.forUpdateFlag /\ qb.whereConditions # <<>>

\* C16: an error thrown by build() carries a code, a category, a level and a
\* timestamp.
C16_StructuredErrors ==
  res.status = "thrown"
    => {"code", "category", "level", "timestamp"} \subseteq ThrownProperties(res.error)

----------------------------------------------------------------------------
(* Claims about the disposal of entries *)

\* C17: when the health check of the idle entry a call found fails, the call
\* calls disconnect() on the adapter of that entry and removes that entry,
\* and no other, from the pool, and the call goes on to create a connection
\* or to wait for one: it does not reject at that point.
C17_UnhealthyDisposed ==
  [][\A c \in Callers :
       /\ (calls[c].pc = "healthCheck" /\ calls'[c].pc = "disconnect")
            => /\ adapters'[calls[c].avail].disconnectCalled
               /\ Entries(arrays', calls[c].pool)
                    = Entries(arrays, calls[c].pool) \ {calls[c].avail}
       /\ (calls[c].pc = "healthCheck" /\ calls'[c] # calls[c])
            => calls'[c].pc = "disconnect" \/ calls'[c].result = "adapter"]_vars

\* a step of the sweep: no call moves, no entry is released, no time passes
IsSweepStep == UNCHANGED <<calls, held, conns, now>>

\* the time the running sweep read at its start
SweepTime == IF sweep.pc = "idle" THEN now ELSE sweep.now

\* the entries the sweep is to remove
Expired(a) == ~conns[a].inUse /\ SweepTime - conns[a].lastUsed > MAX_IDLE_TIME

\* C18: a run of the idle sweep during which no operation of a caller runs
\* removes only entries that are not in use and idle for longer than
\* MAX_IDLE_TIME, each after disconnect() was called on it, keeps the other
\* entries in their order, and when it ends no such entry is left in a
\* registered pool and no registered pool is empty.
C18_SweepExact ==
  [][IsSweepStep =>
       /\ \A k \in ArrIds :
            /\ \A a \in Entries(arrays, k) \ Entries(arrays', k) :
                 Expired(a) /\ adapters[a].disconnectCalled
            /\ arrays'[k] = SelectSeq(arrays[k], LAMBDA a : a \in Entries(arrays', k))
       /\ \A i \in 1 .. Len(pools) :
            (\E j \in 1 .. Len(pools') : pools'[j] = pools[i])
              \/ arrays'[pools[i].arr] = <<>>
       /\ sweep'.pc = "idle" =>
            /\ \A a \in Pooled(pools', arrays') : ~Expired(a)
            /\ \A j \in 1 .. Len(pools') : arrays'[pools'[j].arr] # <<>>]_vars

\* C19: when disconnect() of an entry the idle sweep selected has settled,
\* rejected or not, the entry is removed: it is on connectionsToRemove while
\* the sweep goes on in the same pool, and it is out of the pool once the
\* sweep has left that pool.
C19_FailedDisconnectRemoved ==
  [][(sweep.pc = "disconnect" /\ sweep' # sweep) =>
       IF sweep'.pc = "disconnect" /\ sweep'.it.cur = sweep.it.cur
       THEN \E i \in 1 .. Len(sweep'.it.rem) : sweep'.it.rem[i] = sweep.target
       ELSE sweep.target \notin Entries(arrays', sweep.it.cur)]_vars

----------------------------------------------------------------------------
(* Claims about gracefulShutdown *)

\* the position of cleanup() in its walk has moved on: to a later pool, or
\* to a later entry of the same pool
Advanced(it, jt) ==
  \/ jt.last > it.last
  \/ jt.last = it.last /\ jt.cur = it.cur /\ jt.idx > it.idx

----------------------------------------------------------------------------
(* Claims about getPoolStatistics *)

\* the entries of a pool that are in use
InUseOf(p) == {a \in Entries(arrays, p) : conns[a].inUse}

----------------------------------------------------------------------------
(* Claims about getConnection and the entries it removes and returns *)

----------------------------------------------------------------------------
(* Further claims about build() *)

\* the query, without its FOR UPDATE, ends with the clause
EndsWith(query, clause) ==
  LET q == BeforeForUpdate(query)
  IN  /\ Len(q) >= Len(clause)
      /\ SubSeq(q, Len(q) - Len(clause) + 1, Len(q)) = clause

\* the query holds the keyword
HasKw(query, word) == \E i \in 1 .. Len(query) : query[i] = Kw(word)

----------------------------------------------------------------------------
(* Claims about identifiers *)

\* the characters a rendered name may hold
IsNameChar(dbType, ch) ==
  /\ IsWordChar(ch) \/ ch = "$"
  /\ dbType = "oracle" => ~IsLower(ch)

\* the quote marks of the dialects
OpenMark(dbType) ==
  CASE dbType \in {"mysql", "sqlite"} -> Backtick
    [] dbType \in {"postgresql", "oracle"} -> "\""
    [] dbType = "mssql" -> "["

CloseMark(dbType) == IF dbType = "mssql" THEN "]" ELSE OpenMark(dbType)

\* a name of allowed characters between the quote marks of the dialect
IsQuotedName(dbType, text) ==
  /\ Len(text) >= 3
  /\ text[1] = OpenMark(dbType) /\ text[Len(text)] = CloseMark(dbType)
  /\ \A i \in 2 .. Len(text) - 1 : IsNameChar(dbType, text[i])

\* quoted names separated by dots
IsQuotedPath(dbType, text) ==
  \A i \in 1 .. Len(SplitDot(text)) : IsQuotedName(dbType, SplitDot(text)[i])

\* the identifiers that are rendered as they are
IsAsIs(identifier) ==
  \/ identifier = <<"*">>
  \/ \E i \in 1 .. Len(identifier) : identifier[i] = "("
  \/ Includes(toLowerCase(identifier), <<" ", "a", "s", " ">>)

\* no character of the text is a letter, a digit, "_", "$" or one of extra
NothingLeft(text, extra) ==
  \A i \in 1 .. Len(text) : ~(IsWordChar(text[i]) \/ text[i] = "$" \/ text[i] \in extra)

\* the names a call of a static helper renders
StaticNames == <<st.table>> \o [i \in 1 .. Len(st.data) |-> st.data[i].key]
                 \o [i \in 1 .. Len(st.criteria) |-> st.criteria[i].key]

\* the identifier tokens of a query
IdentsOf(query) == SelectSeq(query, LAMBDA tok : tok.t = "id")

\* C25: escapeIdentifier, which build() applies to every identifier, turns an
\* identifier that is not "*" and holds neither "(" nor " as " into names of
\* characters of [A-Za-z0-9_$] (upper-cased for oracle), each between the
\* quote marks of the dialect, separated by dots, or throws, and it throws
\* when nothing is left of the identifier after stripping.  Every statement
\* that buildInsert, buildUpdate or buildDelete return holds one such quoted
\* name, without dots, for the table and for each key, and they throw and
\* return no statement when nothing is left of one of the names.
C25_Sanitized ==
  /\ (esc.applied /\ ~IsAsIs(esc.identifier))
       => /\ esc.out.ok => IsQuotedPath(qb.dbType, esc.out.text)
          /\ NothingLeft(esc.identifier, {"."}) => ~esc.out.ok /\ esc.out.text = <<>>
  /\ st.op # "none"
       => /\ st.out.status \in {"returned", "thrown"}
          /\ st.out.status = "returned"
               => /\ Len(IdentsOf(st.out.query)) = Len(StaticNames)
                  /\ \A i \in 1 .. Len(IdentsOf(st.out.query)) :
                       IsQuotedName(st.dbType, IdentsOf(st.out.query)[i].c)
          /\ (\E i \in 1 .. Len(StaticNames) : NothingLeft(StaticNames[i], {}))
               => st.out.status = "thrown" /\ st.out.query = <<>>

\* C25 (witness): escapeIdentifier has stripped and quoted the two components
\* of a-b.c, and buildInsert has returned a statement for a key it stripped
C25_Witness ==
  /\ esc.applied /\ esc.identifier = <<"a", "-", "b", ".", "c">> /\ esc.out.ok
  /\ st.op = "insert" /\ st.out.status = "returned"
  /\ \E i \in 1 .. Len(st.data) : st.data[i].key = <<"a", "-", "b">>

----------------------------------------------------------------------------
(* Claims about the parameters of the static helpers *)

\* the prefix of the placeholders of a dialect
PrefixOf(dbType) ==
  CASE dbType = "postgresql" -> "$"
    [] dbType = "mssql" -> "@param"
    [] dbType = "oracle" -> ":param"
    [] OTHER -> "?"

\* the tokens of a query before its WHERE keyword
RECURSIVE BeforeWhere(_)
BeforeWhere(query) ==
  IF query = <<>> \/ Head(query) = Kw("WHERE") THEN <<>>
  ELSE <<Head(query)>> \o BeforeWhere(Tail(query))

\* C26: a statement that buildInsert, buildUpdate or buildDelete return has
\* as params the data values in key order followed by the criteria values in
\* key order (buildInsert has no criteria, buildDelete no data) and one
\* placeholder of the dialect per param; the placeholders of the data keys
\* come before WHERE and those of the criteria keys after it; in the numbered
\* dialects the kth placeholder from the left has index k.
C26_StaticParams ==
  (st.op # "none" /\ st.out.status = "returned")
    => LET ph == PlaceholdersOf(st.out.query)
       IN  /\ st.out.params = Values(st.data) \o Values(st.criteria)
           /\ Len(ph) = Len(st.out.params)
           /\ Len(PlaceholdersOf(BeforeWhere(st.out.query))) = Len(st.data)
           /\ Len(PlaceholdersOf(FromWhere(st.out.query))) = Len(st.criteria)
           /\ \A k \in 1 .. Len(ph) :
                /\ ph[k].s = PrefixOf(st.dbType)
                /\ ph[k].n = IF st.dbType \in NumberedDialects THEN k ELSE 0

\* C26 (witness): buildUpdate has returned a postgresql statement for two
\* data keys and two criteria keys
C26_Witness ==
  /\ st.op = "update" /\ st.out.status = "returned" /\ st.dbType = "postgresql"
  /\ Len(st.data) = 2 /\ Len(st.criteria) = 2

----------------------------------------------------------------------------
(* Claims about repeated calls on a builder *)

----------------------------------------------------------------------------
(* Claims about QueryExecutor *)

\* C28: once a call of create, update or delete of the executor has run
\* adapter.execute and ended, whether it returned or threw, the entry of the
\* adapter it was handed is idle again and no caller holds it; and no call of
\* the executor, made after the calls before it have ended, is rejected with
\* POOL_TIMEOUT.
C28_ConsumersRelease ==
  /\ ex.pc = "idle" /\ ex.adapter # 0 =>
       ~conns[ex.adapter].inUse /\ held[ex.adapter] = 0
  /\ ex.outcome # "POOL_TIMEOUT"

\* after MAX_POOL_SIZE calls that ended, the next call is rejected with
\* POOL_TIMEOUT
C28_Exhausted == ex.outcome = "POOL_TIMEOUT" /\ ex.finished = MAX_POOL_SIZE + 1

\* the statement of an executor of dialect d, as the static helper builds it
\* when it is told the dialect
InDialect(d) ==
  CASE ex.op = "create" -> buildInsert(ex.table, ex.data, d)
    [] ex.op = "update" -> buildUpdate(ex.table, ex.data, ex.criteria, d)
    [] ex.op = "delete" -> buildDelete(ex.table, ex.criteria, d)
    [] OTHER -> NoResult

\* C29: the statement that create, update and delete of an executor
\* constructed with a config of dialect d pass to adapter.execute is the
\* output of buildInsert, buildUpdate and buildDelete called with dbType = d.
C29_ExecutorDialect == ex.pc = "execute" => ex.sql = InDialect(ex.type)

\* what the code does: the statement is the one of the default dialect of
\* the static helpers, whatever the dialect of the executor
C29_AlwaysMysql == ex.pc = "execute" => ex.sql = InDialect("mysql")

----------------------------------------------------------------------------
(* Claims about bound values *)

\* another value in the place of a bound value
Other(v) == v + 100

\* a condition value with as many values, each one another
OtherValue(value) == [value EXCEPT !.v = [i \in 1 .. Len(value.v) |-> Other(value.v[i])]]

OtherConditions(conditions) ==
  [i \in 1 .. Len(conditions) |->
     [conditions[i] EXCEPT !.value = OtherValue(conditions[i].value)]]

\* the builder with the same dialect, identifiers, operators, limit and
\* offset, and other condition values
OtherBuilder(b) ==
  [b EXCEPT !.whereConditions = OtherConditions(b.whereConditions),
            !.havingConditions = OtherConditions(b.havingConditions)]

\* the object with the same keys and other values
OtherObject(object) ==
  [i \in 1 .. Len(object) |-> Entry(object[i].key, Other(object[i].value))]

\* two results with the same text: both returned the same query, or both
\* threw the same error
SameText(a, b) == a.status = b.status /\ a.query = b.query /\ a.error = b.error

\* C30: the query that build() returns, and the query that buildInsert,
\* buildUpdate and buildDelete return, does not depend on the condition and
\* data values: with the same dialect, identifiers, operators, limit, offset
\* and number of values per condition and other values, the call returns the
\* same query (or throws the same error), and params holds the other values
\* in the same places.
C30_ValuesOnlyInParams ==
  /\ res.status # "none" =>
       /\ SameText(res, build(OtherBuilder(qb)))
       /\ build(OtherBuilder(qb)).params =
            [i \in 1 .. Len(res.params) |-> OtherValue(res.params[i])]
  /\ st.op = "insert" =>
       /\ SameText(st.out, buildInsert(st.table, OtherObject(st.data), st.dbType))
       /\ buildInsert(st.table, OtherObject(st.data), st.dbType).params =
            [i \in 1 .. Len(st.out.params) |-> Other(st.out.params[i])]
  /\ st.op = "update" =>
       /\ SameText(st.out, buildUpdate(st.table, OtherObject(st.data),
                                       OtherObject(st.criteria), st.dbType))
       /\ buildUpdate(st.table, OtherObject(st.data), OtherObject(st.criteria),
                      st.dbType).params =
            [i \in 1 .. Len(st.out.params) |-> Other(st.out.params[i])]
  /\ st.op = "delete" =>
       /\ SameText(st.out, buildDelete(st.table, OtherObject(st.criteria), st.dbType))
       /\ buildDelete(st.table, OtherObject(st.criteria), st.dbType).params =
            [i \in 1 .. Len(st.out.params) |-> Other(st.out.params[i])]

\* C30 (witness): build() has returned a query for a builder with a
\* comparison and a list condition, whose params are not those of the builder
\* with the other values
C30_Witness ==
  /\ res.status = "returned"
  /\ \E i \in 1 .. Len(qb.whereConditions) : qb.whereConditions[i].operator = ">"
  /\ \E i \in 1 .. Len(qb.whereConditions) : qb.whereConditions[i].value.arr
  /\ build(OtherBuilder(qb)).params # res.params

====
